---- MODULE Spec2Model ----
(***************************************************************************)
(* GoogleMapsClone: the OpenStreetMap ingestion pipeline.                  *)
(*   - the three streaming readers (open_street_map/readers.rs),           *)
(*   - the batched bulk loader (database/inserters.rs) over the schema of  *)
(*     database/tables.rs,                                                 *)
(*   - the denormalizing fetch (database/fetchers.rs) and the row decoders *)
(*     (osm_entities/node.rs, relation.rs).                                *)
(* Strings are sequences of one-character strings, so that concatenation,  *)
(* GROUP_CONCAT and split are computed rather than assumed.                *)
(***************************************************************************)
EXTENDS Integers, Sequences, FiniteSets, TLC

VARIABLES
    doc,        \* the XML document, as the event stream quick_xml yields
    pos,        \* index of the next event the running reader will read
    nodes,      \* Vec<Node> built by read_nodes_from_file / given to insert_node_data
    ways,       \* Vec<Way>
    relations,  \* Vec<Relation>
    stage,      \* which call of process_map_file / main is running
    pc,         \* index of the next statement of the running load call
    results,    \* result of each call of this run: "none", "Ok" or "Err"
    store,      \* the SQLite tables, each a sequence of rows in rowid order
    log,        \* the statements this run has issued, in issue order
    run,        \* number of the current program run over the same database file
    loaded,     \* the store as the previous run's three load calls left it
    fetched,    \* what the fetch calls returned
    inflight,   \* the statements handed to the store that have not completed
    awaiting,   \* the running call is suspended at an `.await` on the store
    odbc        \* Database::query_nodes: the result set, the rows fetched so far,
                \* current_node_id, current_node, the nodes vector and the result

vars == <<doc, pos, nodes, ways, relations, stage, pc, results, store, log, run,
          loaded, fetched, inflight, awaiting, odbc>>

----------------------------------------------------------------------------
(* Bounds of the model. *)

MaxRuns == 2

\* statements the store accepts at one time
MaxInFlight == 3

----------------------------------------------------------------------------
(* Generic helpers. *)

Min(a, b) == IF a < b THEN a ELSE b

Range(s) == { s[i] : i \in 1..Len(s) }

Some(v) == [some |-> TRUE, v |-> v]
None == [some |-> FALSE, v |-> 0]

\* flat_map(..).collect(): the concatenation of ss[lo..hi]
RECURSIVE ConcatRange(_, _, _)
ConcatRange(ss, lo, hi) ==
    IF lo > hi THEN <<>>
    ELSE IF lo = hi THEN ss[lo]
    ELSE LET mid == (lo + hi) \div 2
         IN  ConcatRange(ss, lo, mid) \o ConcatRange(ss, mid + 1, hi)

Concat(ss) == ConcatRange(ss, 1, Len(ss))

ChunksExact(s, size) ==
    [i \in 1..(Len(s) \div size) |-> SubSeq(s, (i - 1) * size + 1, i * size)]

\* slice::chunks(size): consecutive slices of `size` elements, the last one shorter
Chunks(s, size) ==
    [i \in 1..((Len(s) + size - 1) \div size) |->
        SubSeq(s, (i - 1) * size + 1, Min(i * size, Len(s)))]

----------------------------------------------------------------------------
(* Text: decimal formatting and parsing, split, splitn. *)

Digits == <<"0", "1", "2", "3", "4", "5", "6", "7", "8", "9">>

DigitVal(c) == CHOOSE d \in 0..9 : Digits[d + 1] = c

IsDigit(c) == \E d \in 0..9 : Digits[d + 1] = c

RECURSIVE NatToStr(_)
NatToStr(n) ==
    IF n < 10 THEN <<Digits[n + 1]>>
    ELSE Append(NatToStr(n \div 10), Digits[(n % 10) + 1])

\* SQLite's integer-to-text conversion in `m.id || ':'` and GROUP_CONCAT(wn.ref_id)
IntToStr(n) == IF n < 0 THEN <<"-">> \o NatToStr(0 - n) ELSE NatToStr(n)

RECURSIVE DigitsToNat(_, _)
DigitsToNat(s, acc) ==
    IF s = <<>> THEN acc ELSE DigitsToNat(Tail(s), acc * 10 + DigitVal(Head(s)))

\* str::parse::<i64>(): an optional sign followed by at least one digit
ParseI64(s) ==
    LET body == IF s # <<>> /\ Head(s) \in {"-", "+"} THEN Tail(s) ELSE s
    IN  IF body # <<>> /\ \A i \in 1..Len(body) : IsDigit(body[i])
        THEN Some(IF Head(s) = "-" THEN 0 - DigitsToNat(body, 0)
                  ELSE DigitsToNat(body, 0))
        ELSE None

\* position of the first `d` in s at or after index i, or 0
RECURSIVE FindFrom(_, _, _)
FindFrom(s, d, i) ==
    IF i > Len(s) THEN 0 ELSE IF s[i] = d THEN i ELSE FindFrom(s, d, i + 1)

RECURSIVE SplitEvery(_, _, _)
SplitEvery(s, n, d) ==
    LET k == FindFrom(s, d, 1)
    IN  IF k = 0 THEN <<s>>
        ELSE <<SubSeq(s, 1, k - 1)>> \o SplitEvery(SubSeq(s, k + 1, Len(s)), n, d)

\* str::splitn(n, d): at most n parts, the last one holding the remainder
RECURSIVE Splitn(_, _, _)
Splitn(s, n, d) ==
    LET k == FindFrom(s, d, 1)
    IN  IF n <= 1 \/ k = 0 THEN <<s>>
        ELSE <<SubSeq(s, 1, k - 1)>> \o Splitn(SubSeq(s, k + 1, Len(s)), n - 1, d)

\* str::split(d): every part, empty ones included; the empty string gives one part
RECURSIVE Split(_, _)
Split(s, d) ==
    LET k == FindFrom(s, d, 1)
    IN  IF k = 0 THEN <<s>>
        ELSE <<SubSeq(s, 1, k - 1)>> \o Split(SubSeq(s, k + 1, Len(s)), d)

\* GROUP_CONCAT(cell, ','): NULL for no row, else the cells joined by ','
RECURSIVE Join(_, _, _)
Join(cells, lo, hi) ==
    IF lo = hi THEN cells[lo]
    ELSE LET mid == (lo + hi) \div 2
         IN  Join(cells, lo, mid) \o <<",">> \o Join(cells, mid + 1, hi)

GROUP_CONCAT(cells) == IF cells = <<>> THEN None ELSE Some(Join(cells, 1, Len(cells)))

----------------------------------------------------------------------------
(* The entity model. *)

Tag(k, v) == [key |-> k, value |-> v]

\* MapsType: the variants Node, Way, Relation and Other(&'static str)
MapsTypes == {"Node", "Way", "Relation", "Other"}

as_str(t) ==
    CASE t = "Node" -> <<"n", "o", "d", "e">>
      [] t = "Way" -> <<"w", "a", "y">>
      [] t = "Relation" -> <<"r", "e", "l", "a", "t", "i", "o", "n">>
      [] OTHER -> <<"U", "n", "k", "n", "o", "w", "n">>

\* impl FromStr for MapsType: the three known kind names, anything else is Other
MapsTypeFromStr(s) ==
    IF \E t \in {"Node", "Way", "Relation"} : as_str(t) = s
    THEN Some(CHOOSE t \in {"Node", "Way", "Relation"} : as_str(t) = s)
    ELSE Some("Other")

\* The first 8 bytes of SHA-256 over the hashed bytes, read as an i64. The hash is
\* taken to be collision-free: distinct hashed inputs give distinct ids, and
\* nothing but the hashed inputs reaches the id.
Sha256Id(ref_id, maps_type) ==
    ref_id * 4 + (CASE maps_type = "Node" -> 0 [] maps_type = "Way" -> 1
                    [] maps_type = "Relation" -> 2 [] OTHER -> 3)

\* Member::new as readers.rs calls it: (last_relation.id, ref_id, maps_type, role).
\* The hasher is fed ref_id and maps_type.as_str() only.
MemberNew(relation_id, ref_id, maps_type, role) ==
    [id |-> Sha256Id(ref_id, maps_type), ref_id |-> ref_id,
     maps_type |-> maps_type, role |-> role]

Node(id, version, tags) == [id |-> id, version |-> version, tags |-> tags]

Way(id, version, node_refs, tags) ==
    [id |-> id, version |-> version, node_refs |-> node_refs, tags |-> tags]

\* members are given as <<ref_id, maps_type, role>> and built by Member::new
Relation(id, version, members, tags) ==
    [id |-> id, version |-> version,
     members |-> [i \in 1..Len(members) |->
                    MemberNew(id, members[i][1], members[i][2], members[i][3])],
     tags |-> tags]

----------------------------------------------------------------------------
(* The store: the schema of create_tables and INSERT OR IGNORE. *)

ParentTables == {"node", "way", "relation"}
ChildTables == {"node_tags", "way_nodes", "way_tags", "member", "relation_tags"}
Tables == ParentTables \cup ChildTables

EmptyStore == [t \in Tables |-> <<>>]

\* the PRIMARY KEY of each table
PrimaryKey(t, row) ==
    CASE t \in ParentTables -> <<row.id>>
      [] t = "node_tags" -> <<row.node_id, row.key>>
      [] t = "way_tags" -> <<row.way_id, row.key>>
      [] t = "relation_tags" -> <<row.relation_id, row.key>>
      [] t = "way_nodes" -> <<row.way_id, row.ref_id>>
      [] t = "member" -> <<row.id>>

\* CONSTRAINT member_type_check
member_type_check(row) ==
    \/ /\ row.member_type = as_str("Node")
       /\ row.node_id.some /\ ~row.way_id.some /\ ~row.relation_ref_id.some
    \/ /\ row.member_type = as_str("Way")
       /\ row.way_id.some /\ ~row.node_id.some /\ ~row.relation_ref_id.some
    \/ /\ row.member_type = as_str("Relation")
       /\ row.relation_ref_id.some /\ ~row.node_id.some /\ ~row.way_id.some

\* a row INSERT OR IGNORE skips: a PRIMARY KEY or CHECK conflict
Conflicts(t, table, row) ==
    \/ \E i \in 1..Len(table) : PrimaryKey(t, table[i]) = PrimaryKey(t, row)
    \/ t = "member" /\ ~member_type_check(row)

InsertAlways(t, table, rows) == table \o rows

\* INSERT OR REPLACE: a stored row in conflict with a new one gives way to it
InsertOrReplace(t, table, rows) ==
    LET Kept(r) == \A i \in 1..Len(rows) : PrimaryKey(t, rows[i]) # PrimaryKey(t, r)
    IN  SelectSeq(table, Kept) \o rows

\* INSERT OR IGNORE INTO t VALUES rows: the rows are taken one by one; a row in
\* conflict with the table, or with a row of this statement inserted before it,
\* is skipped and the others are appended
InsertOrIgnore(t, table, rows) ==
    LET Inserted(i) ==
            /\ ~Conflicts(t, table, rows[i])
            /\ \A h \in 1..(i - 1) :
                  \/ PrimaryKey(t, rows[h]) # PrimaryKey(t, rows[i])
                  \/ Conflicts(t, table, rows[h])
        kept == SelectSeq([i \in 1..Len(rows) |-> i], Inserted)
    IN  table \o [n \in 1..Len(kept) |-> rows[kept[n]]]

Execute(st, stmt) ==
    [st EXCEPT ![stmt.table] = InsertOrIgnore(stmt.table, @, stmt.rows)]

----------------------------------------------------------------------------
(* The batched bulk loader. *)

SQLITE_MAX_VARIABLE_NUMBER == 999
BatchCap == 4000

node_field_count == 8
way_field_count == 6
way_node_field_count == 2
relation_field_count == 6
relation_member_field_count == 4
tag_field_count == 3

node_batch_size_of_tags ==
    Min(SQLITE_MAX_VARIABLE_NUMBER \div tag_field_count, BatchCap)

node_batch_size == Min(SQLITE_MAX_VARIABLE_NUMBER \div node_field_count, BatchCap)
way_batch_size == Min(SQLITE_MAX_VARIABLE_NUMBER \div way_field_count, BatchCap)
way_node_batch_size ==
    Min(SQLITE_MAX_VARIABLE_NUMBER \div way_node_field_count, BatchCap)
relation_batch_size ==
    Min(SQLITE_MAX_VARIABLE_NUMBER \div relation_field_count, BatchCap)
relation_member_batch_size_reused == way_node_batch_size
relation_member_batch_size ==
    Min(SQLITE_MAX_VARIABLE_NUMBER \div relation_member_field_count, BatchCap)
tag_batch_size == Min(SQLITE_MAX_VARIABLE_NUMBER \div tag_field_count, BatchCap)

\* the number of push_bind calls of each statement's push_values closure
PushBinds(t) ==
    CASE t = "node" -> 8
      [] t \in {"way", "relation"} -> 6
      [] t \in {"node_tags", "way_tags", "relation_tags"} -> 3
      [] t = "way_nodes" -> 2
      [] t = "member" -> 7

\* a value as SQLite stores it: its storage class and its content
Integer(n) == [type |-> "INTEGER", int |-> n, text |-> <<>>]
Text(s) == [type |-> "TEXT", int |-> 0, text |-> s]
Null == [type |-> "NULL", int |-> 0, text |-> <<>>]

\* the rows the closures bind: push_bind(node.version) binds an i32
ParentRows(es) ==
    [i \in 1..Len(es) |-> [id |-> es[i].id, version |-> Integer(es[i].version)]]

NodeTagRows(es) ==
    Concat([i \in 1..Len(es) |->
              [j \in 1..Len(es[i].tags) |->
                 [node_id |-> es[i].id, key |-> es[i].tags[j].key,
                  value |-> es[i].tags[j].value]]])

WayTagRows(es) ==
    Concat([i \in 1..Len(es) |->
              [j \in 1..Len(es[i].tags) |->
                 [way_id |-> es[i].id, key |-> es[i].tags[j].key,
                  value |-> es[i].tags[j].value]]])

RelationTagRows(es) ==
    Concat([i \in 1..Len(es) |->
              [j \in 1..Len(es[i].tags) |->
                 [relation_id |-> es[i].id, key |-> es[i].tags[j].key,
                  value |-> es[i].tags[j].value]]])

\* Way::extract_way_node_refs: (way.id, ref_id) for every ref of every way
extract_way_node_refs(es) ==
    Concat([i \in 1..Len(es) |->
              [j \in 1..Len(es[i].node_refs) |->
                 [way_id |-> es[i].id, ref_id |-> es[i].node_refs[j]]]])

\* Relation::extract_members: (relation.id, member) for every member
extract_members(es) ==
    Concat([i \in 1..Len(es) |->
              [j \in 1..Len(es[i].members) |-> <<es[i].id, es[i].members[j]>>]])

\* the member row bound by the push_values closure of insert_relation_data
MemberRow(relation_id, member) ==
    [id |-> member.id, relation_id |-> relation_id,
     node_id |-> IF member.maps_type = "Node" THEN Some(member.ref_id) ELSE None,
     way_id |-> IF member.maps_type = "Way" THEN Some(member.ref_id) ELSE None,
     relation_ref_id |->
        IF member.maps_type = "Relation" THEN Some(member.ref_id) ELSE None,
     member_type |-> as_str(member.maps_type), role |-> member.role]

MemberRows(es) ==
    LET ms == extract_members(es)
    IN  [i \in 1..Len(ms) |-> MemberRow(ms[i][1], ms[i][2])]

\* one statement: QueryBuilder::new(INSERT OR IGNORE INTO t ...).push_values(rows)
Stmt(t, rows, pchunk, cchunk) ==
    [table |-> t, rows |-> rows, pchunk |-> pchunk, cchunk |-> cchunk,
     params |-> Len(rows) * PushBinds(t)]

\* `for chunk in parents.chunks(psize)`: one statement per chunk
ParentLoop(t, es, psize) ==
    LET cs == Chunks(es, psize)
    IN  [i \in 1..Len(cs) |-> Stmt(t, ParentRows(cs[i]), i, 0)]

\* `for chunk in parents.chunks(psize) { for c in children(chunk).chunks(csize) }`
ChildLoop(t, childRows, psize, csize) ==
    Concat([i \in 1..Len(childRows) |->
              LET cs == Chunks(childRows[i], csize)
              IN  [j \in 1..Len(cs) |-> Stmt(t, cs[j], i, j)]])

NodeStatementsChildrenFirst(ns) ==
    LET cs == Chunks(ns, node_batch_size)
    IN  ChildLoop("node_tags", [i \in 1..Len(cs) |-> NodeTagRows(cs[i])],
                  node_batch_size, tag_batch_size)
        \o ParentLoop("node", ns, node_batch_size)

\* the statements insert_node_data issues, in order
NodeStatements(ns) ==
    LET cs == Chunks(ns, node_batch_size)
    IN  ParentLoop("node", ns, node_batch_size)
        \o ChildLoop("node_tags", [i \in 1..Len(cs) |-> NodeTagRows(cs[i])],
                     node_batch_size, tag_batch_size)

\* the statements insert_way_data issues, in order
WayStatements(ws) ==
    LET cs == Chunks(ws, way_batch_size)
    IN  ParentLoop("way", ws, way_batch_size)
        \o ChildLoop("way_nodes", [i \in 1..Len(cs) |-> extract_way_node_refs(cs[i])],
                     way_batch_size, way_node_batch_size)
        \o ChildLoop("way_tags", [i \in 1..Len(cs) |-> WayTagRows(cs[i])],
                     way_batch_size, tag_batch_size)

\* the statements insert_relation_data issues, in order
RelationStatements(rs) ==
    LET cs == Chunks(rs, relation_batch_size)
    IN  ParentLoop("relation", rs, relation_batch_size)
        \o ChildLoop("member", [i \in 1..Len(cs) |-> MemberRows(cs[i])],
                     relation_batch_size, relation_member_batch_size)
        \o ChildLoop("relation_tags", [i \in 1..Len(cs) |-> RelationTagRows(cs[i])],
                     relation_batch_size, tag_batch_size)

----------------------------------------------------------------------------
(* The denormalizing fetch and the row decoders. *)

\* byte order of the characters the model uses (SQLite's BINARY collation)
Ascii == <<",", "-", "0", "1", "2", "3", "4", "5", "6", "7", "8", "9", ":",
           "U", "a", "d", "e", "i", "j", "k", "l", "n", "o", "r", "t", "u",
           "v", "w", "x", "y">>

CharCode(c) == CHOOSE i \in 1..Len(Ascii) : Ascii[i] = c

RECURSIVE LessStr(_, _)
LessStr(a, b) ==
    IF b = <<>> THEN FALSE
    ELSE IF a = <<>> THEN TRUE
    ELSE IF Head(a) = Head(b) THEN LessStr(Tail(a), Tail(b))
    ELSE CharCode(Head(a)) < CharCode(Head(b))

\* order of two rows of one group in the table's PRIMARY KEY index
LessKey(t, r1, r2) ==
    CASE t = "way_nodes" -> r1.ref_id < r2.ref_id
      [] t = "member" -> r1.id < r2.id
      [] OTHER -> LessStr(r1.key, r2.key)

RECURSIVE InsertSorted(_, _, _)
InsertSorted(t, sorted, r) ==
    IF sorted = <<>> THEN <<r>>
    ELSE IF LessKey(t, r, Head(sorted)) THEN <<r>> \o sorted
    ELSE <<Head(sorted)>> \o InsertSorted(t, Tail(sorted), r)

RECURSIVE SortRows(_, _, _)
SortRows(t, rows, i) ==
    IF i > Len(rows) THEN <<>>
    ELSE InsertSorted(t, SortRows(t, rows, i + 1), rows[i])

\* SQLite leaves the order in which GROUP_CONCAT meets the rows of a group open:
\* the rows come in rowid order (a table scan) or in PRIMARY KEY order (an index scan)
AggOrders == {"rowid", "index"}

GroupRows(t, rows, order) == IF order = "index" THEN SortRows(t, rows, 1) ELSE rows

\* nt.[key] || ':' || nt.value
TagCell(r) == r.key \o <<":">> \o r.value

\* m.id || ':' || IFNULL(m.node_id, '') || ':' || IFNULL(m.way_id, '') || ':' ||
\* IFNULL(m.relation_ref_id, '') || ':' || m.member_type || ':' || m.role
IfNull(o) == IF o.some THEN IntToStr(o.v) ELSE <<>>

MemberCell(r) ==
    IntToStr(r.id) \o <<":">> \o IfNull(r.node_id) \o <<":">> \o IfNull(r.way_id)
    \o <<":">> \o IfNull(r.relation_ref_id) \o <<":">> \o r.member_type
    \o <<":">> \o r.role

TagCells(rows) == [i \in 1..Len(rows) |-> TagCell(rows[i])]

MemberCells(rows) == [i \in 1..Len(rows) |-> MemberCell(rows[i])]

\* FROM node n JOIN node_tags nt ..: a row for every pair of a node and a tag
NodeQueryInnerJoin(st, order) ==
    Concat([i \in 1..Len(st.node) |->
        LET IsMine(r) == r.node_id = st.node[i].id
            mine == SelectSeq(st.node_tags, IsMine)
        IN  [n \in 1..Len(mine) |->
               [id |-> st.node[i].id, version |-> st.node[i].version,
                tags |-> Some(TagCell(mine[n]))]]])

\* the rows the three queries return: one row for every row of the parent
\* table (LEFT JOIN of aggregates that hold one row for a parent at most)
NodeQuery(st, order) ==
    [i \in 1..Len(st.node) |->
        LET IsMine(r) == r.node_id = st.node[i].id
        IN  [id |-> st.node[i].id, version |-> st.node[i].version,
             tags |-> GROUP_CONCAT(TagCells(
                 GroupRows("node_tags", SelectSeq(st.node_tags, IsMine), order)))]]

WayRefCell(r) == IntToStr(r.ref_id)

WayRefCells(rows) == [i \in 1..Len(rows) |-> WayRefCell(rows[i])]

WayQuery(st, order) ==
    [i \in 1..Len(st.way) |->
        LET IsMine(r) == r.way_id = st.way[i].id
        IN  [id |-> st.way[i].id, version |-> st.way[i].version,
             node_refs |-> GROUP_CONCAT(WayRefCells(
                 GroupRows("way_nodes", SelectSeq(st.way_nodes, IsMine), order))),
             tags |-> GROUP_CONCAT(TagCells(
                 GroupRows("way_tags", SelectSeq(st.way_tags, IsMine), order)))]]

RelationQuery(st, order) ==
    [i \in 1..Len(st.relation) |->
        LET IsMine(r) == r.relation_id = st.relation[i].id
        IN  [id |-> st.relation[i].id, version |-> st.relation[i].version,
             tags |-> GROUP_CONCAT(TagCells(
                 GroupRows("relation_tags", SelectSeq(st.relation_tags, IsMine),
                           order))),
             members |-> GROUP_CONCAT(MemberCells(
                 GroupRows("member", SelectSeq(st.member, IsMine), order)))]]

\* filter_map(..).collect(): the Some results, in order
IsSome(o) == o.some

FilterMap(opts) ==
    LET kept == SelectSeq(opts, IsSome)
    IN  [i \in 1..Len(kept) |-> kept[i].v]

\* row.try_get::<i32, _>(column): a NULL or a value of another storage class is
\* an Err, which from_row hands on with `?`
try_get(value) == IF value.type = "INTEGER" THEN Some(value.int) ELSE None

\* Node::from_row, the tags column: a cell with an empty key or value is dropped
NodeDecodeTag(cell) ==
    LET parts == Splitn(cell, 2, ":")
        key == parts[1]
        value == IF Len(parts) >= 2 THEN parts[2] ELSE <<>>
    IN  IF key = <<>> \/ value = <<>> THEN None ELSE Some(Tag(key, value))

NodeFromRow(row) ==
    LET version == try_get(row.version)
    IN  IF ~version.some THEN None
        ELSE Some(Node(row.id, version.v,
                       IF row.tags.some
                       THEN LET cs == Split(row.tags.v, ",")
                            IN  FilterMap([i \in 1..Len(cs) |-> NodeDecodeTag(cs[i])])
                       ELSE <<>>))

\* Relation::from_row, the tags column: a cell without ':' is dropped
RelationDecodeTag(cell) ==
    LET parts == Splitn(cell, 2, ":")
    IN  IF Len(parts) < 2 THEN None ELSE Some(Tag(parts[1], parts[2]))

DecodeTagsOfAbsent(col) ==
    IF col.some
    THEN LET cs == Split(col.v, ",")
         IN  FilterMap([i \in 1..Len(cs) |-> RelationDecodeTag(cs[i])])
    ELSE <<Tag(<<>>, <<>>)>>

\* `row.try_get("tags").ok()`: a NULL column is None and gives Vec::new()
DecodeTags(col) ==
    IF col.some
    THEN LET cs == Split(col.v, ",")
         IN  FilterMap([i \in 1..Len(cs) |-> RelationDecodeTag(cs[i])])
    ELSE <<>>

\* Relation::from_row, the members column
DecodeMember(cell) ==
    LET parts == Splitn(cell, 6, ":")
    IN  IF Len(parts) < 6 THEN None
        ELSE LET id == ParseI64(parts[1])
                 node_id == ParseI64(parts[2])
                 way_id == ParseI64(parts[3])
                 relation_ref_id == ParseI64(parts[4])
                 maps_type == MapsTypeFromStr(parts[5])
                 ref_id == IF ~maps_type.some THEN None
                           ELSE CASE maps_type.v = "Node" -> node_id
                                  [] maps_type.v = "Way" -> way_id
                                  [] maps_type.v = "Relation" -> relation_ref_id
                                  [] OTHER -> None
             IN  IF id.some /\ maps_type.some /\ ref_id.some
                 THEN Some([id |-> id.v, ref_id |-> ref_id.v,
                            maps_type |-> maps_type.v, role |-> parts[6]])
                 ELSE None

RelationFromRow(row) ==
    LET version == try_get(row.version)
    IN  IF ~version.some THEN None
        ELSE Some([id |-> row.id, version |-> version.v,
                   members |-> IF row.members.some
                               THEN LET cs == Split(row.members.v, ",")
                                    IN  FilterMap([i \in 1..Len(cs) |->
                                                     DecodeMember(cs[i])])
                               ELSE <<>>,
                   tags |-> DecodeTags(row.tags)])

\* Way::from_row: node_refs is the ','-separated list of ref ids
DecodeRef(cell) == ParseI64(cell)

WayFromRow(row) ==
    LET version == try_get(row.version)
    IN  IF ~version.some THEN None
        ELSE Some(Way(row.id, version.v,
                      IF row.node_refs.some
                      THEN LET cs == Split(row.node_refs.v, ",")
                           IN  FilterMap([i \in 1..Len(cs) |-> DecodeRef(cs[i])])
                      ELSE <<>>,
                      DecodeTags(row.tags)))

\* the rows decoded so far are thrown away with the first Err
PushDecodedSkipping(decoded) == Some(FilterMap(decoded))

\* `for row in fetched_result { let e = from_row(&row)?; es.push(e); } Ok(es)`
PushDecoded(decoded) ==
    IF \E i \in 1..Len(decoded) : ~decoded[i].some THEN None
    ELSE Some(FilterMap(decoded))

----------------------------------------------------------------------------
(* Inputs. *)

k == <<"k">>
j == <<"j">>

\* tag values and roles: plain, empty, holding the inner and the outer delimiter
Texts == { <<"v">>, <<>>, <<"v", ":", "w">>, <<"v", ",", "w">> }

outer == <<"o", "u", "t", "e", "r">>

NodeInputs ==
    { <<>> }
    \cup { <<Node(1, 1, <<Tag(k, v)>>)>> : v \in Texts }
    \cup { <<Node(1, 1, <<Tag(k, <<"v">>)>>), Node(2, 1, <<Tag(k, v), Tag(j, v)>>)>> :
             v \in Texts }
    \cup { <<Node(1, 1, <<>>), Node(1, 2, <<Tag(k, <<"v">>)>>)>> }

WayInputs ==
    { <<>> }
    \cup { <<Way(1, 1, refs, <<>>)>> : refs \in { <<1, 2>>, <<2, 1>>, <<1, 2, 1>>, <<7>> } }
    \cup { <<Way(1, 1, <<1, 2>>, <<Tag(k, <<"v">>)>>), Way(2, 1, <<2, 1>>, <<>>)>> }

\* a role that holds the outer delimiter followed by the text of a member cell
CellLikeRole ==
    <<"x", ",", "7", ":", "1", ":", "2", ":", ":", "w", "a", "y", ":", "y">>

RelationInputs ==
    { <<>> }
    \cup { <<Relation(1, 1, <<<<5, "Node", CellLikeRole>>>>, <<>>)>> }
    \cup { <<Relation(1, 1, <<<<5, "Node", outer>>, <<9, "Way", <<>>>>>>, <<>>)>> }
    \cup { <<Relation(1, 1, <<<<5, "Node", r>>>>, <<Tag(k, <<"v">>)>>),
             Relation(2, 1, <<<<5, "Node", r>>>>, <<>>)>> : r \in Texts }
    \cup { <<Relation(1, 1, <<<<5, "Node", outer>>, <<5, "Node", <<>>>>>>, <<>>)>> }
    \cup { <<Relation(1, 1, <<<<2, "Relation", <<"v">>>>>>, <<>>),
             Relation(2, 1, <<<<1, "Way", <<"v">>>>>>, <<Tag(k, <<>>)>>)>> }

DefaultNodes == <<Node(1, 1, <<Tag(k, <<"v">>)>>), Node(2, 1, <<>>)>>
DefaultWays == <<Way(1, 1, <<1, 2>>, <<Tag(k, <<"v">>)>>)>>
DefaultRelations == <<Relation(1, 1, <<<<1, "Node", outer>>>>, <<Tag(k, <<"v">>)>>)>>

\* one collection varies over its inputs while the other two are fixed
Datasets ==
    { [nodes |-> n, ways |-> DefaultWays, relations |-> DefaultRelations] :
        n \in NodeInputs }
    \cup { [nodes |-> DefaultNodes, ways |-> w, relations |-> DefaultRelations] :
             w \in WayInputs }
    \cup { [nodes |-> DefaultNodes, ways |-> DefaultWays, relations |-> r] :
             r \in RelationInputs }

Calls == {"read_nodes", "read_ways", "read_relations",
          "insert_nodes", "insert_ways", "insert_relations",
          "fetch_nodes", "fetch_ways", "fetch_relations"}

LoadCalls == {"insert_nodes", "insert_ways", "insert_relations"}

NoResults == [c \in Calls |-> "none"]

\* query_nodes has not been called
NoQuery == [table |-> <<>>, min_version |-> 0, result_set |-> <<>>, fetched |-> 0,
            current_node_id |-> None, current_node |-> None, nodes |-> <<>>,
            result |-> "none"]
NoFetched == [nodes |-> <<>>, ways |-> <<>>, relations |-> <<>>]

\* the state in which process_map_file starts loading: the readers have returned
InitLoad(ds) ==
    /\ doc = <<>>
    /\ pos = 1
    /\ nodes = ds.nodes
    /\ ways = ds.ways
    /\ relations = ds.relations
    /\ stage = "insert_nodes"
    /\ pc = 1
    /\ results = [NoResults EXCEPT !["read_nodes"] = "Ok", !["read_ways"] = "Ok",
                                   !["read_relations"] = "Ok"]
    /\ store = EmptyStore
    /\ log = <<>>
    /\ run = 1
    /\ loaded = None
    /\ fetched = NoFetched
    /\ inflight = <<>>
    /\ awaiting = FALSE
    /\ odbc = NoQuery

Init == \E ds \in Datasets : InitLoad(ds)

----------------------------------------------------------------------------
(* The load calls of process_map_file. *)

Statements(call) ==
    CASE call = "insert_nodes" -> NodeStatements(nodes)
      [] call = "insert_ways" -> WayStatements(ways)
      [] call = "insert_relations" -> RelationStatements(relations)

ExecuteAwaitSwallow(call, ok) == [stage |-> call, pc |-> pc + 1, result |-> "none"]

\* `query.execute(sqlite_pool).await?`: on Ok go on with the next chunk, on Err
\* return the error; process_map_file and main hand it on with `?`
ExecuteAwaitTry(call, ok) ==
    IF ok THEN [stage |-> call, pc |-> pc + 1, result |-> "none"]
    ELSE [stage |-> "done", pc |-> pc, result |-> "Err"]

StoreAfterRollback(st, stmt, ok) == IF ok THEN Execute(st, stmt) ELSE EmptyStore

\* the store after a statement: each statement commits on its own (the loader
\* opens no transaction), a failed statement writes nothing
StoreAfter(st, stmt, ok) == IF ok THEN Execute(st, stmt) ELSE st

\* one step of a load call: issue the next statement, or return Ok(()) after the last
LoadStep(call, next) ==
    /\ LET stmts == Statements(call)
       IN  IF pc <= Len(stmts)
           THEN \E ok \in BOOLEAN :
                  LET r == ExecuteAwaitTry(call, ok)
                  IN  /\ log' = Append(log, [call |-> call, table |-> stmts[pc].table,
                                             pchunk |-> stmts[pc].pchunk,
                                             cchunk |-> stmts[pc].cchunk,
                                             rows |-> stmts[pc].rows,
                                             params |-> stmts[pc].params, ok |-> ok])
                      /\ store' = StoreAfter(store, stmts[pc], ok)
                      /\ stage' = r.stage
                      /\ pc' = r.pc
                      /\ results' = [results EXCEPT ![call] = r.result]
           ELSE /\ stage' = next
                /\ pc' = 1
                /\ results' = [results EXCEPT ![call] = "Ok"]
                /\ UNCHANGED <<store, log>>
    /\ UNCHANGED <<odbc, doc, pos, nodes, ways, relations, run, loaded, fetched,
                   inflight, awaiting>>

insert_node_data ==
    /\ stage = "insert_nodes"
    /\ LoadStep("insert_nodes", "insert_ways")

insert_way_data ==
    /\ stage = "insert_ways"
    /\ LoadStep("insert_ways", "insert_relations")

\* process_map_file returns Ok(()) and main goes on to the fetch calls
insert_relation_data ==
    /\ stage = "insert_relations"
    /\ LoadStep("insert_relations", "fetch_nodes")

----------------------------------------------------------------------------
(* The fetch calls of main. *)

\* fetch_all(..).await? fails with the store's error, which main turns into a
\* panic; otherwise every row is decoded by from_row
\* `decoded` gives the result of the decoding loop for each order of aggregation
FetchStep(call, next, field, decoded) ==
    /\ \/ \E order \in AggOrders :
            IF decoded[order].some
            THEN /\ fetched' = [fetched EXCEPT ![field] = decoded[order].v]
                 /\ results' = [results EXCEPT ![call] = "Ok"]
                 /\ stage' = next
            ELSE /\ results' = [results EXCEPT ![call] = "Err"]
                 /\ stage' = "done"
                 /\ UNCHANGED fetched
       \/ /\ results' = [results EXCEPT ![call] = "Err"]
          /\ stage' = "done"
          /\ UNCHANGED fetched
    /\ UNCHANGED <<odbc, doc, pos, nodes, ways, relations, pc, store, log, run, loaded,
                   inflight, awaiting>>

fetch_all_nodes_and_tags ==
    /\ stage = "fetch_nodes"
    /\ FetchStep("fetch_nodes", "fetch_ways", "nodes",
                 [order \in AggOrders |->
                    LET rows == NodeQuery(store, order)
                    IN  PushDecoded([i \in 1..Len(rows) |-> NodeFromRow(rows[i])])])

fetch_all_ways_and_tags ==
    /\ stage = "fetch_ways"
    /\ FetchStep("fetch_ways", "fetch_relations", "ways",
                 [order \in AggOrders |->
                    LET rows == WayQuery(store, order)
                    IN  PushDecoded([i \in 1..Len(rows) |-> WayFromRow(rows[i])])])

fetch_all_relations_and_tags ==
    /\ stage = "fetch_relations"
    /\ FetchStep("fetch_relations", "done", "relations",
                 [order \in AggOrders |->
                    LET rows == RelationQuery(store, order)
                    IN  PushDecoded([i \in 1..Len(rows) |-> RelationFromRow(rows[i])])])

\* the program is run again on the same file over the same database file
AllLoaded == \A c \in LoadCalls : results[c] = "Ok"

Rerun ==
    /\ stage = "done"
    /\ run < MaxRuns
    /\ run' = run + 1
    /\ loaded' = IF AllLoaded THEN Some(store) ELSE None
    /\ stage' = "insert_nodes"
    /\ pc' = 1
    /\ log' = <<>>
    /\ results' = [NoResults EXCEPT !["read_nodes"] = "Ok", !["read_ways"] = "Ok",
                                    !["read_relations"] = "Ok"]
    /\ fetched' = NoFetched
    /\ UNCHANGED <<odbc, doc, pos, nodes, ways, relations, store, inflight, awaiting>>

----------------------------------------------------------------------------
(* The streaming readers. *)

\* quick_xml events: Start, Empty (self-closing) and End; Eof is the end of doc
Ev(kind, name, attrs) == [kind |-> kind, name |-> name, attrs |-> attrs]

Attr(name, value) == [name |-> name, value |-> value]

\* str::parse::<f64>(), as far as the model's texts go: a decimal number with an
\* optional sign and at most one '.'
ParseF64(s) ==
    LET body == IF s # <<>> /\ Head(s) \in {"-", "+"} THEN Tail(s) ELSE s
        dots == { i \in 1..Len(body) : body[i] = "." }
    IN  IF /\ Cardinality(dots) <= 1
           /\ \E i \in 1..Len(body) : IsDigit(body[i])
           /\ \A i \in 1..Len(body) : IsDigit(body[i]) \/ body[i] = "."
        THEN Some(0)
        ELSE None

\* the attribute loop of a node, way or relation element: a numeric attribute
\* that does not parse ends the read with an error (`parse()?`); attributes the
\* match does not name are ignored
RECURSIVE EntityAttrs(_, _, _, _)
EntityAttrs(attrs, i, floats, acc) ==
    IF i > Len(attrs) \/ ~acc.some THEN acc
    ELSE LET a == attrs[i]
             n == ParseI64(a.value)
         IN  EntityAttrs(attrs, i + 1, floats,
                CASE a.name = "id" ->
                       IF n.some THEN Some([acc.v EXCEPT !.id = n.v]) ELSE None
                  [] a.name = "version" ->
                       IF n.some THEN Some([acc.v EXCEPT !.version = n.v]) ELSE None
                  [] a.name \in {"changeset", "uid"} ->
                       IF n.some THEN acc ELSE None
                  [] a.name \in floats ->
                       IF ParseF64(a.value).some THEN acc ELSE None
                  [] OTHER -> acc)

TagAttrsByPosition(attrs, i, tag) ==
    Tag(IF Len(attrs) >= 1 THEN attrs[1].value ELSE <<>>,
        IF Len(attrs) >= 2 THEN attrs[2].value ELSE <<>>)

\* the attribute loop of a <tag> element
RECURSIVE TagAttrs(_, _, _)
TagAttrs(attrs, i, tag) ==
    IF i > Len(attrs) THEN tag
    ELSE TagAttrs(attrs, i + 1,
            CASE attrs[i].name = "k" -> [tag EXCEPT !.key = attrs[i].value]
              [] attrs[i].name = "v" -> [tag EXCEPT !.value = attrs[i].value]
              [] OTHER -> tag)

\* the attribute loop of a <nd> element: node_ref starts at -1
RECURSIVE NdAttrs(_, _, _)
NdAttrs(attrs, i, acc) ==
    IF i > Len(attrs) \/ ~acc.some THEN acc
    ELSE NdAttrs(attrs, i + 1,
            IF attrs[i].name = "ref" THEN ParseI64(attrs[i].value) ELSE acc)

\* the attribute loop of a <member> element
RECURSIVE MemberAttrs(_, _, _)
MemberAttrs(attrs, i, acc) ==
    IF i > Len(attrs) \/ ~acc.some THEN acc
    ELSE LET a == attrs[i]
         IN  MemberAttrs(attrs, i + 1,
                CASE a.name = "type" ->
                       IF MapsTypeFromStr(a.value).some
                       THEN Some([acc.v EXCEPT !.maps_type = MapsTypeFromStr(a.value).v])
                       ELSE None
                  [] a.name = "ref" ->
                       IF ParseI64(a.value).some
                       THEN Some([acc.v EXCEPT !.ref_id = ParseI64(a.value).v])
                       ELSE None
                  [] a.name = "role" -> Some([acc.v EXCEPT !.role = a.value])
                  [] OTHER -> acc)

NeverUnknown(maps_type) == FALSE

\* maps_type == MapsType::Other("Unknown"): the <member> has no known kind
IsUnknown(maps_type) == maps_type = "Other"

\* last_mut(): push onto a field of the last element
PushLast(es, field, x) ==
    [es EXCEPT ![Len(es)] = [@ EXCEPT ![field] = Append(@, x)]]

ReadReturnGoOn(call, next, ok) ==
    /\ results' = [results EXCEPT ![call] = IF ok THEN "Ok" ELSE "Err"]
    /\ stage' = next
    /\ pos' = 1

\* Ok(collection) at Eof moves process_map_file to its next call; an Err makes
\* process_map_file panic
ReadReturn(call, next, ok) ==
    /\ results' = [results EXCEPT ![call] = IF ok THEN "Ok" ELSE "Err"]
    /\ stage' = IF ok THEN next ELSE "done"
    /\ pos' = 1

\* one turn of the loop of read_nodes_from_file
read_nodes_from_file ==
    /\ stage = "read_nodes"
    /\ IF pos > Len(doc)
       THEN ReadReturn("read_nodes", "read_ways", TRUE) /\ UNCHANGED nodes
       ELSE LET e == doc[pos]
            IN  IF e.kind \in {"Start", "Empty"} /\ e.name = "node"
                THEN LET node == EntityAttrs(e.attrs, 1, {"lat", "lon"},
                                             Some(Node(0, 0, <<>>)))
                     IN  IF node.some
                         THEN /\ nodes' = Append(nodes, node.v)
                              /\ pos' = pos + 1
                              /\ UNCHANGED <<stage, results>>
                         ELSE ReadReturn("read_nodes", "read_ways", FALSE)
                              /\ nodes' = <<>>
                ELSE /\ nodes' = IF e.kind = "Empty" /\ e.name = "tag" /\ nodes # <<>>
                                 THEN PushLast(nodes, "tags",
                                               TagAttrs(e.attrs, 1, Tag(<<>>, <<>>)))
                                 ELSE nodes
                     /\ pos' = pos + 1
                     /\ UNCHANGED <<stage, results>>
    /\ UNCHANGED <<odbc, doc, ways, relations, pc, store, log, run, loaded, fetched,
                   inflight, awaiting>>

\* one turn of the loop of read_ways_from_file
read_ways_from_file ==
    /\ stage = "read_ways"
    /\ IF pos > Len(doc)
       THEN ReadReturn("read_ways", "read_relations", TRUE) /\ UNCHANGED ways
       ELSE LET e == doc[pos]
            IN  IF e.kind = "Start" /\ e.name = "way"
                THEN LET way == EntityAttrs(e.attrs, 1, {}, Some(Way(0, 0, <<>>, <<>>)))
                     IN  IF way.some
                         THEN /\ ways' = Append(ways, way.v)
                              /\ pos' = pos + 1
                              /\ UNCHANGED <<stage, results>>
                         ELSE ReadReturn("read_ways", "read_relations", FALSE)
                              /\ ways' = <<>>
                ELSE IF e.kind = "Empty" /\ e.name = "nd" /\ ways # <<>>
                THEN LET node_ref == NdAttrs(e.attrs, 1, Some(-1))
                     IN  IF node_ref.some
                         THEN /\ ways' = IF node_ref.v # -1
                                         THEN PushLast(ways, "node_refs", node_ref.v)
                                         ELSE ways
                              /\ pos' = pos + 1
                              /\ UNCHANGED <<stage, results>>
                         ELSE ReadReturn("read_ways", "read_relations", FALSE)
                              /\ ways' = <<>>
                ELSE /\ ways' = IF e.kind = "Empty" /\ e.name = "tag" /\ ways # <<>>
                                THEN PushLast(ways, "tags",
                                              TagAttrs(e.attrs, 1, Tag(<<>>, <<>>)))
                                ELSE ways
                     /\ pos' = pos + 1
                     /\ UNCHANGED <<stage, results>>
    /\ UNCHANGED <<odbc, doc, nodes, relations, pc, store, log, run, loaded, fetched,
                   inflight, awaiting>>

\* one turn of the loop of read_relations_from_file
read_relations_from_file ==
    /\ stage = "read_relations"
    /\ IF pos > Len(doc)
       THEN ReadReturn("read_relations", "insert_nodes", TRUE) /\ UNCHANGED relations
       ELSE LET e == doc[pos]
            IN  IF e.kind = "Start" /\ e.name = "relation"
                THEN LET relation == EntityAttrs(e.attrs, 1, {},
                                                 Some(Relation(0, 0, <<>>, <<>>)))
                     IN  IF relation.some
                         THEN /\ relations' = Append(relations, relation.v)
                              /\ pos' = pos + 1
                              /\ UNCHANGED <<stage, results>>
                         ELSE ReadReturn("read_relations", "insert_nodes", FALSE)
                              /\ relations' = <<>>
                ELSE IF e.kind = "Empty" /\ e.name = "member" /\ relations # <<>>
                THEN LET m == MemberAttrs(e.attrs, 1,
                                 Some([ref_id |-> 0, maps_type |-> "Other",
                                       role |-> <<>>]))
                     IN  IF m.some
                         THEN /\ relations' =
                                    IF ~IsUnknown(m.v.maps_type)
                                    THEN PushLast(relations, "members",
                                            MemberNew(relations[Len(relations)].id,
                                                      m.v.ref_id, m.v.maps_type,
                                                      m.v.role))
                                    ELSE relations
                              /\ pos' = pos + 1
                              /\ UNCHANGED <<stage, results>>
                         ELSE ReadReturn("read_relations", "insert_nodes", FALSE)
                              /\ relations' = <<>>
                ELSE /\ relations' =
                           IF e.kind = "Empty" /\ e.name = "tag" /\ relations # <<>>
                           THEN PushLast(relations, "tags",
                                         TagAttrs(e.attrs, 1, Tag(<<>>, <<>>)))
                           ELSE relations
                     /\ pos' = pos + 1
                     /\ UNCHANGED <<stage, results>>
    /\ UNCHANGED <<odbc, doc, nodes, ways, pc, store, log, run, loaded, fetched,
                   inflight, awaiting>>

NextParse == read_nodes_from_file \/ read_ways_from_file \/ read_relations_from_file

----------------------------------------------------------------------------
(* Documents. *)

MaxElems == 2

IdAttrs(id) == <<Attr("id", IntToStr(id)), Attr("version", <<"1">>)>>

TagEv(key, value) == Ev("Empty", "tag", <<Attr("k", key), Attr("v", value)>>)

NdEv(ref) == Ev("Empty", "nd", <<Attr("ref", IntToStr(ref))>>)

MemberEv(type, ref, role) ==
    Ev("Empty", "member",
       <<Attr("type", type), Attr("ref", IntToStr(ref)), Attr("role", role)>>)

Open(name, id, children) ==
    <<Ev("Start", name, IdAttrs(id))>> \o children \o <<Ev("End", name, <<>>)>>

\* an id that is not a number
BadIdAttrs == <<Attr("id", <<"x">>), Attr("version", <<"1">>)>>

\* elements with a malformed, unknown or missing attribute, a self-closing way
\* and a way whose first ref is -1
EdgeElements ==
    { <<Ev("Start", "node", BadIdAttrs), Ev("End", "node", <<>>)>>,
      <<Ev("Empty", "way", BadIdAttrs)>>,
      <<Ev("Empty", "way", IdAttrs(6))>>,
      Open("way", 8, <<NdEv(7), Ev("Empty", "nd", <<Attr("ref", <<"x">>)>>), NdEv(9)>>),
      Open("way", 9, <<NdEv(-1), NdEv(7)>>),
      Open("relation", 6, <<MemberEv(<<"x">>, 5, outer),
                            MemberEv(as_str("Way"), 9, <<>>)>>),
      Open("relation", 7,
           <<Ev("Empty", "member", <<Attr("type", as_str("Node")),
                                     Attr("role", outer)>>),
             Ev("Empty", "member", <<Attr("type", as_str("Way")),
                                     Attr("ref", <<"9">>)>>)>>) }

\* the elements documents are made of
Elements ==
    EdgeElements \cup
    { <<Ev("Empty", "node", IdAttrs(1))>>,
      Open("node", 2, <<TagEv(k, <<"v">>)>>),
      Open("way", 3, <<NdEv(7), NdEv(3), NdEv(9), TagEv(j, <<"w">>)>>),
      Open("relation", 4, <<MemberEv(as_str("Node"), 5, outer),
                            MemberEv(as_str("Node"), 5, <<>>), TagEv(k, <<"x">>)>>),
      Open("relation", 5, <<MemberEv(as_str("Node"), 5, outer),
                            MemberEv(as_str("Way"), 9, <<>>)>>) }

\* an element with the attributes of every event in reverse order, behind an
\* attribute no reader names
Reordered(e) ==
    Ev(e.kind, e.name,
       IF e.kind = "End" THEN e.attrs
       ELSE <<Attr("visible", <<"t", "r", "u", "e">>)>>
            \o [i \in 1..Len(e.attrs) |-> e.attrs[Len(e.attrs) + 1 - i]])

ReorderedElement(es) == [i \in 1..Len(es) |-> Reordered(es[i])]

\* elements that also come with their attributes reordered
TwinElements ==
    { Open("node", 2, <<TagEv(k, <<"v">>)>>),
      Open("way", 3, <<NdEv(7), NdEv(3), NdEv(9), TagEv(j, <<"w">>)>>),
      Open("relation", 4, <<MemberEv(as_str("Node"), 5, outer),
                            MemberEv(as_str("Node"), 5, <<>>), TagEv(k, <<"x">>)>>) }

AllElements == Elements \cup { ReorderedElement(es) : es \in TwinElements }

ElementSeqs == UNION { [1..n -> AllElements] : n \in 0..MaxElems }

Docs == { <<Ev("Start", "osm", <<>>)>> \o Concat(es) \o <<Ev("End", "osm", <<>>)>> :
            es \in ElementSeqs }

InitParse ==
    /\ doc \in Docs
    /\ pos = 1
    /\ nodes = <<>>
    /\ ways = <<>>
    /\ relations = <<>>
    /\ stage = "read_nodes"
    /\ pc = 1
    /\ results = NoResults
    /\ store = EmptyStore
    /\ log = <<>>
    /\ run = 1
    /\ loaded = None
    /\ fetched = NoFetched
    /\ inflight = <<>>
    /\ awaiting = FALSE
    /\ odbc = NoQuery

SpecParse == InitParse /\ [][NextParse]_vars

NextLoad == insert_node_data \/ insert_way_data \/ insert_relation_data

NextFetch ==
    fetch_all_nodes_and_tags \/ fetch_all_ways_and_tags \/ fetch_all_relations_and_tags

Next == NextLoad \/ NextFetch \/ Rerun

Spec == Init /\ [][Next]_vars

----------------------------------------------------------------------------
(* The same calls with the store round trip of every statement open: a statement
   is handed to the store by execute / fetch_all and completes at the `.await`. *)

FetchCalls == {"fetch_nodes", "fetch_ways", "fetch_relations"}

NextCall(call) ==
    CASE call = "insert_nodes" -> "insert_ways"
      [] call = "insert_ways" -> "insert_relations"
      [] call = "insert_relations" -> "fetch_nodes"
      [] call = "fetch_nodes" -> "fetch_ways"
      [] call = "fetch_ways" -> "fetch_relations"
      [] OTHER -> "done"

Detached == FALSE

\* `.await` on the future execute / fetch_all returns: the call does not go on
\* until the store has answered
Awaited == TRUE

\* query.execute(sqlite_pool): the next chunk's statement is built and handed to
\* the store
execute_issue ==
    /\ stage \in LoadCalls
    /\ ~awaiting
    /\ pc <= Len(Statements(stage))
    /\ Len(inflight) < MaxInFlight
    /\ inflight' = Append(inflight, [call |-> stage, pc |-> pc])
    /\ awaiting' = Awaited
    /\ UNCHANGED <<odbc, doc, pos, nodes, ways, relations, stage, pc, results, store, log,
                   run, loaded, fetched>>

\* `.await?` of a load call: the store answers the statement in flight
execute_await ==
    /\ stage \in LoadCalls
    /\ awaiting
    /\ inflight # <<>>
    /\ \E ok \in BOOLEAN :
          LET stmt == Statements(stage)[Head(inflight).pc]
              r == ExecuteAwaitTry(stage, ok)
          IN  /\ log' = Append(log, [call |-> stage, table |-> stmt.table,
                                     pchunk |-> stmt.pchunk, cchunk |-> stmt.cchunk,
                                     rows |-> stmt.rows, params |-> stmt.params,
                                     ok |-> ok])
              /\ store' = StoreAfter(store, stmt, ok)
              /\ stage' = r.stage
              /\ pc' = r.pc
              /\ results' = [results EXCEPT ![stage] = r.result]
    /\ inflight' = Tail(inflight)
    /\ awaiting' = FALSE
    /\ UNCHANGED <<odbc, doc, pos, nodes, ways, relations, run, loaded, fetched>>

\* Ok(()) after the last chunk of a load call
load_return ==
    /\ stage \in LoadCalls
    /\ ~awaiting
    /\ pc > Len(Statements(stage))
    /\ stage' = NextCall(stage)
    /\ pc' = 1
    /\ results' = [results EXCEPT ![stage] = "Ok"]
    /\ UNCHANGED <<odbc, doc, pos, nodes, ways, relations, store, log, run, loaded, fetched,
                   inflight, awaiting>>

\* sqlx::query_as(..).fetch_all(sqlite_pool): the query is handed to the store
fetch_issue ==
    /\ stage \in FetchCalls
    /\ ~awaiting
    /\ Len(inflight) < MaxInFlight
    /\ inflight' = Append(inflight, [call |-> stage, pc |-> 0])
    /\ awaiting' = Awaited
    /\ UNCHANGED <<odbc, doc, pos, nodes, ways, relations, stage, pc, results, store, log,
                   run, loaded, fetched>>

FetchedRows(call, order) ==
    CASE call = "fetch_nodes" ->
           LET rows == NodeQuery(store, order)
           IN  PushDecoded([i \in 1..Len(rows) |-> NodeFromRow(rows[i])])
      [] call = "fetch_ways" ->
           LET rows == WayQuery(store, order)
           IN  PushDecoded([i \in 1..Len(rows) |-> WayFromRow(rows[i])])
      [] call = "fetch_relations" ->
           LET rows == RelationQuery(store, order)
           IN  PushDecoded([i \in 1..Len(rows) |-> RelationFromRow(rows[i])])

FetchField(call) ==
    CASE call = "fetch_nodes" -> "nodes"
      [] call = "fetch_ways" -> "ways"
      [] call = "fetch_relations" -> "relations"

\* `.await` of a fetch call: the store answers the query in flight
fetch_await ==
    /\ stage \in FetchCalls
    /\ awaiting
    /\ inflight # <<>>
    /\ \/ \E order \in AggOrders :
            LET decoded == FetchedRows(stage, order)
            IN  IF decoded.some
                THEN /\ fetched' = [fetched EXCEPT ![FetchField(stage)] = decoded.v]
                     /\ results' = [results EXCEPT ![stage] = "Ok"]
                     /\ stage' = NextCall(stage)
                ELSE /\ results' = [results EXCEPT ![stage] = "Err"]
                     /\ stage' = "done"
                     /\ UNCHANGED fetched
       \/ /\ results' = [results EXCEPT ![stage] = "Err"]
          /\ stage' = "done"
          /\ UNCHANGED fetched
    /\ inflight' = Tail(inflight)
    /\ awaiting' = FALSE
    /\ UNCHANGED <<odbc, doc, pos, nodes, ways, relations, pc, store, log, run, loaded>>

NextAwait ==
    execute_issue \/ execute_await \/ load_return \/ fetch_issue \/ fetch_await

SpecAwait == Init /\ [][NextAwait]_vars

----------------------------------------------------------------------------
(* The fetch calls over a database file that exists before the program runs:
   create_tables is CREATE TABLE IF NOT EXISTS, so the tables hold what earlier
   runs and other writers left in them. *)

\* a role that holds the outer delimiter followed by a cell whose id is no integer
BadIdRole == <<"x", ",", "q", ":", "1", ":", ":", ":", "n", "o", "d", "e", ":", "y">>

\* a role that holds the outer delimiter followed by a cell whose node_id is NULL
NoRefRole == <<"x", ",", "7", ":", ":", ":", ":", "n", "o", "d", "e", ":", "y">>

FetchDatasets ==
    Datasets
    \cup { [nodes |-> DefaultNodes, ways |-> DefaultWays,
            relations |-> <<Relation(1, 1, <<<<5, "Node", r>>>>, <<>>),
                            Relation(2, 1, <<>>, <<>>)>>] :
             r \in {BadIdRole, NoRefRole} }
    \cup { [nodes |-> <<Node(1, 1, <<Tag(k, <<"v">>), Tag(j, <<"v">>)>>),
                        Node(2, 1, <<>>)>>,
            ways |-> DefaultWays, relations |-> DefaultRelations] }
    \cup { [nodes |-> DefaultNodes, ways |-> DefaultWays,
            relations |-> <<Relation(1, 1, <<<<5, "Node", <<"v", ":", "w">>>>>>,
                                     <<Tag(k, <<"v", ":", "w">>)>>)>>] }

\* the store after the three load calls of a run in which every statement succeeds
RECURSIVE ExecuteAll(_, _, _)
ExecuteAll(st, stmts, i) ==
    IF i > Len(stmts) THEN st ELSE ExecuteAll(Execute(st, stmts[i]), stmts, i + 1)

LoadedStore(ds) ==
    ExecuteAll(EmptyStore,
               NodeStatements(ds.nodes) \o WayStatements(ds.ways)
               \o RelationStatements(ds.relations), 1)

\* what a `version` column can hold: SQLite keeps a text it cannot convert as
\* TEXT whatever the declared type, and a table made by another schema allows NULL
StoredVersions == {Integer(1), Text(<<"x">>), Null}

ForeignVersion(st, t, i, value) == [st EXCEPT ![t][i].version = value]

FetchStores ==
    UNION { LET st == LoadedStore(ds)
            IN  {st} \cup UNION { { ForeignVersion(st, t, i, value) :
                                      i \in 1..Len(st[t]), value \in StoredVersions }
                                  : t \in ParentTables }
          : ds \in FetchDatasets }

InitFetch ==
    /\ \E st \in FetchStores : store = st
    /\ doc = <<>>
    /\ pos = 1
    /\ nodes = <<>>
    /\ ways = <<>>
    /\ relations = <<>>
    /\ stage = "fetch_nodes"
    /\ pc = 1
    /\ results = [c \in Calls |-> IF c \in FetchCalls THEN "none" ELSE "Ok"]
    /\ log = <<>>
    /\ run = 1
    /\ loaded = None
    /\ fetched = NoFetched
    /\ inflight = <<>>
    /\ awaiting = FALSE
    /\ odbc = NoQuery

SpecFetch == InitFetch /\ [][NextFetch]_vars

----------------------------------------------------------------------------
(* The whole run of main: the choice of a file, the three readers, the three
   load calls and the three fetch calls. *)

MaxFileElems == 3

FileElements ==
    { Open("node", 5, <<TagEv(k, <<"v">>)>>),
      Open("way", 3, <<NdEv(5), NdEv(7), TagEv(j, <<"w">>)>>),
      Open("relation", 4, <<MemberEv(as_str("Node"), 5, outer),
                            MemberEv(as_str("Way"), 3, <<>>)>>),
      <<Ev("Start", "relation", BadIdAttrs), Ev("End", "relation", <<>>)>> }

Files ==
    { <<Ev("Start", "osm", <<>>)>> \o Concat(es) \o <<Ev("End", "osm", <<>>)>> :
        es \in UNION { [1..n -> FileElements] : n \in 0..MaxFileElems } }

\* main has connected and created the tables; doc is the file the user may pick
InitMain ==
    /\ doc \in Files
    /\ pos = 1
    /\ nodes = <<>>
    /\ ways = <<>>
    /\ relations = <<>>
    /\ stage = "choose_file"
    /\ pc = 1
    /\ results = NoResults
    /\ store = EmptyStore
    /\ log = <<>>
    /\ run = 1
    /\ loaded = None
    /\ fetched = NoFetched
    /\ inflight = <<>>
    /\ awaiting = FALSE
    /\ odbc = NoQuery

\* read_openstreet_map_file: `if let Some(chosen_file) = choose_file(&files)` runs
\* process_map_file; an invalid selection prints a message and returns Ok(()),
\* and main goes on to the fetch calls
read_openstreet_map_file ==
    /\ stage = "choose_file"
    /\ \E chosen \in BOOLEAN : stage' = IF chosen THEN "read_nodes" ELSE "fetch_nodes"
    /\ UNCHANGED <<odbc, doc, pos, nodes, ways, relations, pc, results, store, log, run,
                   loaded, fetched, inflight, awaiting>>

NextMain == read_openstreet_map_file \/ NextParse \/ NextLoad \/ NextFetch

SpecMain == InitMain /\ [][NextMain]_vars

----------------------------------------------------------------------------
(* The load calls over a store that earlier runs have filled from other files. *)

\* the default entities with other field values under the same primary keys
OtherValues ==
    [nodes |-> <<Node(1, 2, <<Tag(k, <<"w">>)>>)>>,
     ways |-> <<Way(1, 2, <<1>>, <<Tag(k, <<"w">>)>>)>>,
     relations |-> <<Relation(1, 2, <<<<1, "Node", <<"w">>>>>>, <<Tag(k, <<"w">>)>>)>>]

EarlierStores ==
    { EmptyStore, LoadedStore(OtherValues),
      LoadedStore([nodes |-> DefaultNodes, ways |-> DefaultWays,
                   relations |-> DefaultRelations]) }

InitReload ==
    \E ds \in Datasets, st \in EarlierStores :
        /\ doc = <<>>
        /\ pos = 1
        /\ nodes = ds.nodes
        /\ ways = ds.ways
        /\ relations = ds.relations
        /\ stage = "insert_nodes"
        /\ pc = 1
        /\ results = [NoResults EXCEPT !["read_nodes"] = "Ok", !["read_ways"] = "Ok",
                                       !["read_relations"] = "Ok"]
        /\ store = st
        /\ log = <<>>
        /\ run = 1
        /\ loaded = None
        /\ fetched = NoFetched
        /\ inflight = <<>>
        /\ awaiting = FALSE
        /\ odbc = NoQuery

SpecReload == InitReload /\ [][NextLoad]_vars

----------------------------------------------------------------------------
(* Database::query_nodes of the ODBC variant (database.rs): the joined rows of
   node and node_tags are fetched in batches and folded into nodes. *)

\* rows of one fetch batch: main.rs sets 5000; how the rows fall into batches
\* does not depend on the number, and the model takes small batches
BATCH_SIZE == 2

MaxQueryNodes == 3

\* SELECT .. FROM node n LEFT JOIN node_tags t ON n.id = t.node_id
\* WHERE n.version >= ? ORDER BY n.id, t.[key]: the text row set, one row for
\* every tag of a matching node and one row with NULL key and value for a
\* matching node without tags. `table` holds the nodes by id, their tags by key.
ResultSet(table, min_version) ==
    Concat([i \in 1..Len(table) |->
        LET n == table[i]
        IN  IF n.version < min_version THEN <<>>
            ELSE IF n.tags = <<>>
            THEN <<[id |-> Some(IntToStr(n.id)), version |-> Some(IntToStr(n.version)),
                    key |-> None, value |-> None]>>
            ELSE [t \in 1..Len(n.tags) |->
                    [id |-> Some(IntToStr(n.id)), version |-> Some(IntToStr(n.version)),
                     key |-> Some(n.tags[t].key), value |-> Some(n.tags[t].value)]]])

\* utils::parse_i64 / parse_i32: NoDataError for NULL, else str::parse
parse_i64(bytes) == IF bytes.some THEN ParseI64(bytes.v) ELSE None

\* utils::parse_string: NoDataError for NULL
parse_string(bytes) == bytes

\* the body of `for row_index in 0..batch.num_rows()`; a `?` that fails gives
\* ok = FALSE
ForRow(st, row) ==
    LET node_id == parse_i64(row.id)
        version == parse_i64(row.version)
        key == parse_string(row.key)
        value == parse_string(row.value)
        changed == st.current_node_id # Some(node_id.v)
        taken == IF changed /\ st.current_node.some
                 THEN Append(st.nodes, st.current_node.v) ELSE st.nodes
        node == IF changed THEN Node(node_id.v, version.v, <<>>) ELSE st.current_node.v
    IN  IF ~node_id.some \/ (changed /\ ~version.some) \/ ~key.some \/ ~value.some
        THEN [st EXCEPT !.ok = FALSE]
        ELSE [st EXCEPT !.nodes = taken,
                        !.current_node_id = Some(node_id.v),
                        !.current_node =
                            Some([node EXCEPT !.tags = Append(@, Tag(key.v, value.v))])]

RECURSIVE ForRows(_, _, _)
ForRows(batch, row_index, st) ==
    IF row_index > Len(batch) \/ ~st.ok THEN st
    ELSE ForRows(batch, row_index + 1, ForRow(st, batch[row_index]))

\* `if let Some(ref node) = current_node { nodes.push(node.clone()); }` after the
\* rows of a batch: current_node stays set
PushCurrent(st) == [st EXCEPT !.nodes = Append(@, st.current_node.v)]

\* one turn of `while let Some(batch) = row_set_cursor.fetch()?`, or Ok(nodes)
\* when the rows are used up
query_nodes ==
    /\ stage = "query_nodes"
    /\ IF odbc.fetched < Len(odbc.result_set)
       THEN LET hi == Min(odbc.fetched + BATCH_SIZE, Len(odbc.result_set))
                batch == SubSeq(odbc.result_set, odbc.fetched + 1, hi)
                st == ForRows(batch, 1,
                              [current_node_id |-> odbc.current_node_id,
                               current_node |-> odbc.current_node,
                               nodes |-> odbc.nodes, ok |-> TRUE])
                end == IF st.ok /\ st.current_node.some THEN PushCurrent(st) ELSE st
            IN  IF st.ok
                THEN /\ odbc' = [odbc EXCEPT !.fetched = hi,
                                            !.current_node_id = end.current_node_id,
                                            !.current_node = end.current_node,
                                            !.nodes = end.nodes]
                     /\ UNCHANGED stage
                ELSE /\ odbc' = [odbc EXCEPT !.result = "Err", !.nodes = <<>>]
                     /\ stage' = "done"
       ELSE /\ odbc' = [odbc EXCEPT !.result = "Ok"]
            /\ stage' = "done"
    /\ UNCHANGED <<doc, pos, nodes, ways, relations, pc, results, store, log, run,
                   loaded, fetched, inflight, awaiting>>

\* the node table: ids 1..n, the first node of version 1 and the others of
\* version 2, every node with zero to three tags in key order
QueryTags == { <<>>, <<Tag(j, <<"v">>)>>, <<Tag(j, <<"v">>), Tag(k, <<"v">>)>>,
               <<Tag(j, <<"v">>), Tag(k, <<"v">>), Tag(<<"x">>, <<"v">>)>> }

QueryTables ==
    UNION { { [i \in 1..n |-> Node(i, IF i = 1 THEN 1 ELSE 2, tags[i])] :
                tags \in [1..n -> QueryTags] } : n \in 0..MaxQueryNodes }

InitQuery ==
    /\ \E table \in QueryTables, min_version \in 1..2 :
          odbc = [NoQuery EXCEPT !.table = table, !.min_version = min_version,
                                 !.result_set = ResultSet(table, min_version)]
    /\ doc = <<>>
    /\ pos = 1
    /\ nodes = <<>>
    /\ ways = <<>>
    /\ relations = <<>>
    /\ stage = "query_nodes"
    /\ pc = 1
    /\ results = NoResults
    /\ store = EmptyStore
    /\ log = <<>>
    /\ run = 1
    /\ loaded = None
    /\ fetched = NoFetched
    /\ inflight = <<>>
    /\ awaiting = FALSE

SpecQuery == InitQuery /\ [][query_nodes]_vars

----------------------------------------------------------------------------
(* Bulk inputs: collections that overflow a chunk of each table. *)

Extra == 1

TextOf(i) == <<"t">> \o NatToStr(i)

ManyTags(n) == [i \in 1..n |-> Tag(TextOf(i), <<"v">>)]

ThreeTags == <<Tag(k, <<"v">>), Tag(j, <<"v">>), Tag(<<"x">>, <<"v">>)>>

\* the first way and the first relation overflow a child chunk on their own
BulkDatasets ==
    { [nodes |-> [i \in 1..(node_batch_size + Extra) |-> Node(i, 1, ThreeTags)],
       ways |-> [i \in 1..(way_batch_size + Extra) |->
                   IF i = 1
                   THEN Way(1, 1, [n \in 1..(way_node_batch_size + Extra) |-> n],
                            ManyTags(tag_batch_size + Extra))
                   ELSE Way(i, 1, <<i>>, <<>>)],
       relations |-> [i \in 1..(relation_batch_size + Extra) |->
                        IF i = 1
                        THEN Relation(1, 1,
                                [n \in 1..(relation_member_batch_size + Extra) |->
                                   <<n, "Node", <<>>>>],
                                ManyTags(tag_batch_size + Extra))
                        ELSE Relation(i, 1, <<<<i, "Way", <<>>>>>>, <<>>)]],
      [nodes |-> <<Node(1, 1, ManyTags(tag_batch_size + Extra))>>,
       ways |-> <<>>,
       relations |-> <<Relation(1, 1,
                         [i \in 1..(relation_member_batch_size + Extra) |->
                            <<i, "Node", <<>>>>],
                         <<>>)>>] }

\* a node batch of many chunks
ScenarioBNodes == 1200

ScenarioB ==
    [nodes |-> [i \in 1..ScenarioBNodes |-> Node(i, 1, <<>>)],
     ways |-> <<>>, relations |-> <<>>]

InitBulk == \E ds \in BulkDatasets \cup {ScenarioB} \cup Datasets : InitLoad(ds)

SpecBulk == InitBulk /\ [][NextLoad]_vars

----------------------------------------------------------------------------
(* Properties of the readers. *)

\* the Start events still open just before event i
RECURSIVE OpenStack(_, _)
OpenStack(d, i) ==
    IF i <= 1 THEN <<>>
    ELSE LET st == OpenStack(d, i - 1)
             e == d[i - 1]
         IN  IF e.kind = "Start" THEN Append(st, i - 1)
             ELSE IF e.kind = "End" /\ st # <<>> THEN SubSeq(st, 1, Len(st) - 1)
             ELSE st

\* the element that encloses event i, or 0 at the top level
Encloser(d, i) ==
    LET st == OpenStack(d, i) IN IF st = <<>> THEN 0 ELSE st[Len(st)]

IsTagEv(e) == e.kind = "Empty" /\ e.name = "tag"

\* the tags nested in the element event p opens, in document order
EnclosedTags(d, p) ==
    LET IsMine(i) == IsTagEv(d[i]) /\ Encloser(d, i) = p
        mine == SelectSeq([i \in 1..Len(d) |-> i], IsMine)
    IN  [n \in 1..Len(mine) |-> TagAttrs(d[mine[n]].attrs, 1, Tag(<<>>, <<>>))]

\* the events that open an element of the given name, in document order
ElementsNamed(d, name, kinds) ==
    LET IsOne(i) == d[i].name = name /\ d[i].kind \in kinds
    IN  SelectSeq([i \in 1..Len(d) |-> i], IsOne)

TagsByNesting(call, parsed, name, kinds) ==
    results[call] = "Ok" =>
        /\ Len(parsed) = Len(ElementsNamed(doc, name, kinds))
        /\ \A n \in 1..Len(parsed) :
              parsed[n].tags = EnclosedTags(doc, ElementsNamed(doc, name, kinds)[n])

\* C1: when a reader has returned, the tags of every entity it returns are exactly
\* the <tag> events nested in that entity's element: no tag nested in a way or a
\* relation is in a Node, none nested in a node or relation is in a Way, none
\* nested in a node or way is in a Relation.
C1_TagsGoToEnclosingEntity ==
    /\ TagsByNesting("read_nodes", nodes, "node", {"Start", "Empty"})
    /\ TagsByNesting("read_ways", ways, "way", {"Start"})
    /\ TagsByNesting("read_relations", relations, "relation", {"Start"})

\* the members of the parsed relations, each with the relation it belongs to
ParsedMembers ==
    UNION { { <<relations[r].id, relations[r].members[m]>> :
                m \in 1..Len(relations[r].members) } : r \in 1..Len(relations) }

FourOf(rm) == <<rm[1], rm[2].ref_id, rm[2].maps_type, rm[2].role>>

\* C7: the synthetic Member id is a function of (relationId, targetId, targetKind,
\* role): members built from the same four values have the same id, and members
\* that differ in any of the four (the hash being collision-free) have different
\* ids.
C7_MemberIdOfAllFour ==
    \A a \in ParsedMembers, b \in ParsedMembers :
        (FourOf(a) = FourOf(b)) <=> (a[2].id = b[2].id)

----------------------------------------------------------------------------
(* Properties of the loader and the fetch. *)

DistinctIds(es) == \A a \in 1..Len(es), b \in 1..Len(es) : es[a].id = es[b].id => a = b

\* the store was empty when this run began loading, and the fetch call returned
FetchedFromFresh(call) == run = 1 /\ results[call] = "Ok"

TagSet(e) == Range(e.tags)

MemberSet(r) ==
    { <<r.members[m].ref_id, r.members[m].maps_type, r.members[m].role>> :
        m \in 1..Len(r.members) }

\* C2: for every Way given to insert_way_data, the node_refs fetch_all_ways_and_tags
\* reconstructs equal the Way's node_refs: same length, ids and order, repeated
\* refs included.
C2_NodeRefsRoundTrip ==
    (FetchedFromFresh("fetch_ways") /\ DistinctIds(ways)) =>
        \A w \in Range(ways) :
            \E f \in Range(fetched.ways) : f.id = w.id /\ f.node_refs = w.node_refs

\* C3: no insert statement binds more than SQLITE_MAX_VARIABLE_NUMBER parameters,
\* counting rows times the values its push_values closure binds per row.
C3_ParamsWithinCeiling ==
    \A i \in 1..Len(log) : log[i].params <= SQLITE_MAX_VARIABLE_NUMBER

\* C4: loading entities with distinct ids and distinct tag keys per entity into an
\* empty store and fetching them yields for every entity the same set of
\* (key, value) tags, also for values holding ':' or ',' and for empty values.
C4_TagsRoundTrip ==
    /\ (FetchedFromFresh("fetch_nodes") /\ DistinctIds(nodes)) =>
          \A e \in Range(nodes) :
              \E f \in Range(fetched.nodes) : f.id = e.id /\ TagSet(f) = TagSet(e)
    /\ (FetchedFromFresh("fetch_relations") /\ DistinctIds(relations)) =>
          \A e \in Range(relations) :
              \E f \in Range(fetched.relations) : f.id = e.id /\ TagSet(f) = TagSet(e)

\* C5: loading relations with distinct ids into an empty store and fetching them
\* yields for every relation the same set of (targetId, targetKind, role) members,
\* the empty role included, also when two relations have a member with the same
\* target.
C5_MembersRoundTrip ==
    (FetchedFromFresh("fetch_relations") /\ DistinctIds(relations)) =>
        \A e \in Range(relations) :
            \E f \in Range(fetched.relations) :
                f.id = e.id /\ MemberSet(f) = MemberSet(e)

FieldCount(t) ==
    CASE t = "node" -> node_field_count
      [] t = "way" -> way_field_count
      [] t = "relation" -> relation_field_count
      [] t = "way_nodes" -> way_node_field_count
      [] t = "member" -> relation_member_field_count
      [] OTHER -> tag_field_count

\* C8: every insert statement into a table with configured field count f holds at
\* most min(floor(999 / f), 4000) rows, the limit being the table's own.
C8_ChunkSizePerTable ==
    \A i \in 1..Len(log) :
        Len(log[i].rows)
            <= Min(SQLITE_MAX_VARIABLE_NUMBER \div FieldCount(log[i].table), BatchCap)

\* every table has had a statement filled to its own limit, followed by another
C8_Witness ==
    \A t \in Tables :
        \E a \in 1..Len(log), b \in 1..Len(log) :
            /\ a < b
            /\ log[a].table = t /\ log[b].table = t
            /\ Len(log[a].rows)
                 = Min(SQLITE_MAX_VARIABLE_NUMBER \div FieldCount(t), BatchCap)

ParentOf(t) ==
    CASE t = "node_tags" -> "node"
      [] t \in {"way_nodes", "way_tags"} -> "way"
      [] OTHER -> "relation"

OwnerId(t, row) ==
    CASE t = "node_tags" -> row.node_id
      [] t \in {"way_nodes", "way_tags"} -> row.way_id
      [] OTHER -> row.relation_id

ParentChunks(call) ==
    CASE call = "insert_nodes" -> Len(Chunks(nodes, node_batch_size))
      [] call = "insert_ways" -> Len(Chunks(ways, way_batch_size))
      [] call = "insert_relations" -> Len(Chunks(relations, relation_batch_size))

CallRank(call) ==
    CASE call = "insert_nodes" -> 1 [] call = "insert_ways" -> 2 [] OTHER -> 3

\* C9 as stated: no child statement is issued until all node chunks, all way
\* chunks and all relation chunks have been inserted.
C9_AllParentsBeforeAnyChild ==
    \A i \in 1..Len(log) :
        log[i].table \in ChildTables =>
            \A c \in LoadCalls :
                Cardinality({ h \in 1..(i - 1) :
                                log[h].call = c /\ log[h].table \in ParentTables })
                    = ParentChunks(c)

\* C9 amended: within one load call no child statement is issued until all parent
\* chunks of that call have been inserted, the load calls run in the order nodes,
\* ways, relations, and every child row in the store has the parent row its
\* owning id names.
C9_ParentsOfCallBeforeChildren ==
    /\ \A i \in 1..Len(log) :
          log[i].table \in ChildTables =>
              Cardinality({ h \in 1..(i - 1) :
                                 /\ log[h].call = log[i].call
                                 /\ log[h].table \in ParentTables
                                 /\ log[h].ok })
                    = ParentChunks(log[i].call)
    /\ \A h \in 1..Len(log), i \in 1..Len(log) :
          h < i => CallRank(log[h].call) <= CallRank(log[i].call)
    /\ \A t \in ChildTables :
          \A n \in 1..Len(store[t]) :
              \E p \in 1..Len(store[ParentOf(t)]) :
                  store[ParentOf(t)][p].id = OwnerId(t, store[t][n])

\* a child statement has been issued after two parent chunks of its call
C9_Witness ==
    \E i \in 1..Len(log) :
        /\ log[i].table = "member"
        /\ log[i].ok
        /\ ParentChunks("insert_relations") = 2
        /\ store["member"] # <<>>

\* C10: a failed statement is the last one its call issues, the call returns the
\* error, and no chunk is issued twice in one call.
C10_FailureAbortsCall ==
    /\ \A i \in 1..Len(log) :
          ~log[i].ok =>
              /\ i = Len(log)
              /\ results[log[i].call] = "Err"
              /\ stage = "done"
    /\ \A h \in 1..Len(log), i \in 1..Len(log) :
          (/\ log[h].call = log[i].call /\ log[h].table = log[i].table
           /\ log[h].pchunk = log[i].pchunk /\ log[h].cchunk = log[i].cchunk)
              => h = i

\* the first of two parent chunks failed: a parent chunk and child chunks remained
C10_Witness ==
    /\ stage = "done"
    /\ Len(log) = 1
    /\ ~log[1].ok
    /\ log[1].table = "node"
    /\ ParentChunks("insert_nodes") = 2
    /\ Len(NodeStatements(nodes)) > 2

IsPrefix(a, b) == Len(a) <= Len(b) /\ SubSeq(b, 1, Len(a)) = a

\* the primary keys of the rows statement e writes when no row of its key is there
KeysOf(e) ==
    { PrimaryKey(e.table, e.rows[n]) :
        n \in { m \in 1..Len(e.rows) :
                  e.table = "member" => member_type_check(e.rows[m]) } }

StoredKeys(t) == { PrimaryKey(t, store[t][n]) : n \in 1..Len(store[t]) }

\* every row of every chunk that succeeded is in the store
WrittenChunksPresent ==
    \A i \in 1..Len(log) : log[i].ok => KeysOf(log[i]) \subseteq StoredKeys(log[i].table)

FailedStep == Len(log') = Len(log) + 1 /\ ~log'[Len(log')].ok

\* C11: a load call that fails at chunk k leaves the rows of its chunks 1..k-1 in
\* the store (no rollback), and no step removes or changes a row that was in the
\* store: the failing statement leaves the store as it was, every other step only
\* appends rows.
C11_NoRollbackOnFailure ==
    [][/\ \A t \in Tables : IsPrefix(store[t], store'[t])
       /\ FailedStep => store' = store
       /\ WrittenChunksPresent']_vars

\* the second of two node chunks failed after the first was written
C11_Witness ==
    /\ stage = "done"
    /\ Len(log) = 2
    /\ log[1].ok /\ log[1].table = "node" /\ ~log[2].ok /\ log[2].table = "node"
    /\ Len(store["node"]) = node_batch_size
    /\ results["insert_nodes"] = "Err"

StatementsDone(call) == Cardinality({ i \in 1..Len(log) : log[i].call = call })

\* C12: at most one store statement is in flight; a chunk's statement is issued
\* only when every earlier chunk of its call has completed, and a fetch query is
\* in flight only after the three load calls have returned.
C12_OneStatementInFlight ==
    /\ Len(inflight) <= 1
    /\ \A n \in 1..Len(inflight) :
          /\ inflight[n].call = stage
          /\ inflight[n].call \in LoadCalls =>
                /\ inflight[n].pc = pc
                /\ StatementsDone(stage) = pc - 1
                /\ \A i \in 1..Len(log) : log[i].ok
          /\ inflight[n].call \in FetchCalls =>
                \A c \in LoadCalls : results[c] = "Ok"

\* the second statement of insert_way_data is in flight, the first has completed
C12_Witness ==
    /\ Len(inflight) = 1
    /\ awaiting
    /\ stage = "insert_ways"
    /\ pc = 2
    /\ StatementsDone("insert_ways") = 1

KnownKinds == {"Node", "Way", "Relation"}

\* the slot of a member row that a kind selects
SlotOf(row, kind) ==
    CASE kind = "Node" -> row.node_id
      [] kind = "Way" -> row.way_id
      [] kind = "Relation" -> row.relation_ref_id

\* exactly one of the three slots is non-null, the one member_type selects
ExactlyOneSlot(row) ==
    \E kind \in KnownKinds :
        /\ row.member_type = as_str(kind)
        /\ SlotOf(row, kind).some
        /\ \A other \in KnownKinds \ {kind} : ~SlotOf(row, other).some

\* the member cells fetch_all_relations_and_tags hands to Relation::from_row
MemberCellsFetched ==
    UNION { UNION { IF RelationQuery(store, order)[i].members.some
                    THEN Range(Split(RelationQuery(store, order)[i].members.v, ","))
                    ELSE {} : i \in 1..Len(store.relation) } : order \in AggOrders }

\* a cell decodes by the slot its kind token selects, the other two being empty
DecodesBySlot(cell) ==
    LET parts == Splitn(cell, 6, ":")
        m == DecodeMember(cell)
        slot == [kind \in KnownKinds |->
                   CASE kind = "Node" -> parts[2]
                     [] kind = "Way" -> parts[3]
                     [] kind = "Relation" -> parts[4]]
    IN  /\ m.some =>
              /\ m.v.maps_type \in KnownKinds
              /\ slot[m.v.maps_type] = IntToStr(m.v.ref_id)
              /\ \A other \in KnownKinds \ {m.v.maps_type} : slot[other] = <<>>
        /\ (Len(parts) = 6 /\ ~\E kind \in KnownKinds : parts[5] = as_str(kind))
              => ~m.some

\* C13: every member row in the store has exactly one of node_id, way_id,
\* relation_ref_id non-null, the one its kind selects; every Member decoded by
\* Relation::from_row has a known kind and its ref_id from the slot of that kind,
\* the other two slots of its cell being absent; a cell with an unknown kind
\* token yields no Member.
C13_MemberPolymorphism ==
    /\ \A n \in 1..Len(store.member) : ExactlyOneSlot(store.member[n])
    /\ results["fetch_relations"] = "Ok" =>
          \A cell \in MemberCellsFetched : DecodesBySlot(cell)

----------------------------------------------------------------------------
(* Properties of the readers: attributes. *)

\* the value of the attribute `name` of event e, if it has one
AttrValue(e, name) ==
    LET at == { i \in 1..Len(e.attrs) : e.attrs[i].name = name }
    IN  IF at = {} THEN None
        ELSE Some(e.attrs[CHOOSE i \in at : \A h \in at : h <= i].value)

\* the self-closing `name` children of the element event p opens, in document order
Nested(d, p, name) ==
    LET IsMine(i) == d[i].kind = "Empty" /\ d[i].name = name /\ Encloser(d, i) = p
    IN  SelectSeq([i \in 1..Len(d) |-> i], IsMine)

IsKnownKindEv(e) ==
    /\ AttrValue(e, "type").some
    /\ \E kind \in KnownKinds : as_str(kind) = AttrValue(e, "type").v

KindOfEv(e) == CHOOSE kind \in KnownKinds : as_str(kind) = AttrValue(e, "type").v

\* a numeric scalar attribute of e holds a text that is not a number
Malformed(e) ==
    \E i \in 1..Len(e.attrs) :
        /\ e.attrs[i].name \in {"id", "lat", "lon", "version", "changeset", "uid"}
        /\ ~ParseF64(e.attrs[i].value).some

HasMalformed(name) ==
    \E i \in 1..Len(doc) :
        doc[i].name = name /\ doc[i].kind \in {"Start", "Empty"} /\ Malformed(doc[i])

\* the kinds of the members with a known kind among the children of relation p
KnownKindsNested(p) ==
    LET IsKnown(i) == IsKnownKindEv(doc[i])
        evs == SelectSeq(Nested(doc, p, "member"), IsKnown)
    IN  [m \in 1..Len(evs) |-> KindOfEv(doc[evs[m]])]

\* C14: a <member> whose type is not node, way or relation does not fail the
\* parse, is absent from the enclosing Relation, and leaves the relation's other
\* members in place; no parsed Relation holds a Member of kind Other.
C14_UnknownKindSkipped ==
    /\ results["read_relations"] = "Err" => HasMalformed("relation")
    /\ results["read_relations"] = "Ok" =>
          LET opened == ElementsNamed(doc, "relation", {"Start"})
          IN  /\ Len(relations) = Len(opened)
              /\ \A n \in 1..Len(relations) :
                    /\ [m \in 1..Len(relations[n].members) |->
                          relations[n].members[m].maps_type] = KnownKindsNested(opened[n])
                    /\ \A m \in 1..Len(relations[n].members) :
                          relations[n].members[m].maps_type # "Other"

\* relation 6, whose first member has the type "x", was read with its way member
C14_Witness ==
    /\ results["read_relations"] = "Ok"
    /\ \E i \in 1..Len(doc) :
          /\ doc[i].name = "member"
          /\ ~IsKnownKindEv(doc[i])
    /\ \E n \in 1..Len(relations) :
          /\ relations[n].id = 6
          /\ Len(relations[n].members) = 1
          /\ relations[n].members[1].maps_type = "Way"

MalformedAborts(call, name, parsed) ==
    (results[call] # "none" /\ HasMalformed(name)) =>
        (results[call] = "Err" /\ parsed = <<>>)

\* C15: a non-numeric value in a numeric scalar attribute of a node, way or
\* relation element makes the read function of that kind return an error and no
\* entity collection.
C15_MalformedScalarAborts ==
    /\ MalformedAborts("read_nodes", "node", nodes)
    /\ MalformedAborts("read_ways", "way", ways)
    /\ MalformedAborts("read_relations", "relation", relations)

\* the refs of the <nd> children of way p that parse as integers, in document order
ParsedRefsNested(p) ==
    LET Parses(i) == /\ AttrValue(doc[i], "ref").some
                     /\ ParseI64(AttrValue(doc[i], "ref").v).some
        evs == SelectSeq(Nested(doc, p, "nd"), Parses)
    IN  [m \in 1..Len(evs) |-> ParseI64(AttrValue(doc[evs[m]], "ref").v).v]

HasBadRef ==
    \E i \in 1..Len(doc) :
        /\ doc[i].kind = "Empty" /\ doc[i].name = "nd"
        /\ AttrValue(doc[i], "ref").some
        /\ ~ParseI64(AttrValue(doc[i], "ref").v).some
        /\ Encloser(doc, i) # 0
        /\ doc[Encloser(doc, i)].name = "way"

\* C16: an <nd> whose ref does not parse as an integer is skipped: the parse goes
\* on and succeeds, and the Way keeps the refs of its other <nd> children in order.
C16_BadRefSkipped ==
    (results["read_ways"] # "none" /\ HasBadRef /\ ~HasMalformed("way")) =>
        /\ results["read_ways"] = "Ok"
        /\ LET opened == ElementsNamed(doc, "way", {"Start"})
           IN  \A n \in 1..Len(ways) :
                   n <= Len(opened) => ways[n].node_refs = ParsedRefsNested(opened[n])

\* the ids of the elements of one kind, open or self-closing, in document order
IdsOf(name) ==
    LET els == ElementsNamed(doc, name, {"Start", "Empty"})
    IN  [n \in 1..Len(els) |->
           LET id == AttrValue(doc[els[n]], "id")
           IN  IF id.some THEN ParseI64(id.v) ELSE None]

OneRecordPerElement(call, name, parsed) ==
    results[call] = "Ok" =>
        [n \in 1..Len(parsed) |-> Some(parsed[n].id)] = IdsOf(name)

\* C17: every node, way and relation element, open or self-closing, gives exactly
\* one record of its kind, in document order.
C17_OneRecordPerElement ==
    /\ OneRecordPerElement("read_nodes", "node", nodes)
    /\ OneRecordPerElement("read_ways", "way", ways)
    /\ OneRecordPerElement("read_relations", "relation", relations)

\* the <member> children of relation p that have a known type, a ref that parses
\* and a role
CompleteMembersNested(p) ==
    LET Complete(i) == /\ IsKnownKindEv(doc[i])
                       /\ AttrValue(doc[i], "ref").some
                       /\ ParseI64(AttrValue(doc[i], "ref").v).some
                       /\ AttrValue(doc[i], "role").some
    IN  SelectSeq(Nested(doc, p, "member"), Complete)

\* C18: a Member is appended only for a <member> whose type, ref and role are all
\* present and resolvable: every parsed Relation has exactly the members of its
\* complete <member> children, with their ref and role.
C18_MemberNeedsAllThree ==
    results["read_relations"] = "Ok" =>
        LET opened == ElementsNamed(doc, "relation", {"Start"})
        IN  \A n \in 1..Len(relations) :
                n <= Len(opened) =>
                    LET evs == CompleteMembersNested(opened[n])
                    IN  [m \in 1..Len(relations[n].members) |->
                           <<relations[n].members[m].ref_id,
                             relations[n].members[m].role>>]
                        = [m \in 1..Len(evs) |->
                             <<ParseI64(AttrValue(doc[evs[m]], "ref").v).v,
                               AttrValue(doc[evs[m]], "role").v>>]

\* C19: the node_refs of every parsed Way are exactly the ref values of the <nd>
\* children of its element, in document order.
C19_NodeRefsInDocumentOrder ==
    results["read_ways"] = "Ok" =>
        LET opened == ElementsNamed(doc, "way", {"Start"})
        IN  /\ Len(ways) = Len(opened)
            /\ \A n \in 1..Len(ways) : ways[n].node_refs = ParsedRefsNested(opened[n])

----------------------------------------------------------------------------
(* Properties of the loader: the number of statements. *)

\* the row counts of the statements issued into the node table, in issue order
NodeStatementSizes ==
    LET IsNode(e) == e.table = "node"
        es == SelectSeq(log, IsNode)
    IN  [i \in 1..Len(es) |-> Len(es[i].rows)]

\* C20: when no statement fails, loading n nodes issues exactly ceil(n / 124)
\* statements into the node table, each but the last of exactly 124 rows and the
\* last of the remaining rows.
C20_NodeStatementCount ==
    results["insert_nodes"] = "Ok" =>
        LET sizes == NodeStatementSizes
            n == Len(nodes)
        IN  /\ Len(sizes) = (n + 123) \div 124
            /\ \A i \in 1..Len(sizes) :
                  sizes[i] = IF i < Len(sizes) THEN 124 ELSE n - 124 * (Len(sizes) - 1)

\* the nodes of Scenario B were loaded with 10 statements
C20_Witness ==
    /\ results["insert_nodes"] = "Ok"
    /\ Len(nodes) = ScenarioBNodes
    /\ Len(NodeStatementSizes) = 10
    /\ Len(store.node) = ScenarioBNodes

----------------------------------------------------------------------------
(* Decoding of fetched rows. *)

FetchTable(call) ==
    CASE call = "fetch_nodes" -> "node"
      [] call = "fetch_ways" -> "way"
      [] call = "fetch_relations" -> "relation"

Unconvertible(t) == { i \in 1..Len(store[t]) : ~try_get(store[t][i].version).some }

\* C21: if a fetched row has a mandatory scalar column that is NULL or does not
\* convert to its declared type, the fetch call returns an error; it returns no
\* collection, neither one without that row nor the rows decoded before it.
C21_BadScalarFailsFetch ==
    \A call \in FetchCalls :
        (results[call] # "none" /\ Unconvertible(FetchTable(call)) # {})
        => /\ results[call] = "Err"
           /\ fetched[FetchField(call)] = <<>>

\* the second row of relation fails to convert after the first one was decoded
C21_Witness ==
    /\ Unconvertible("relation") = {2}
    /\ results["fetch_relations"] = "Err"
    /\ fetched.relations = <<>>
    /\ Len(fetched.nodes) > 0

\* the cells of every members column the relation query returns
FetchedMemberCells ==
    UNION { UNION { Range(Split(rows[i].members.v, ",")) :
                      i \in { n \in 1..Len(rows) : rows[n].members.some } }
            : rows \in { RelationQuery(store, order) : order \in AggOrders } }

\* a six-field cell of a known kind whose id token, or whose foreign-key token
\* selected by the kind, is not an integer
MalformedMemberCell(cell) ==
    LET parts == Splitn(cell, 6, ":")
    IN  /\ Len(parts) = 6
        /\ \E kind \in KnownKinds :
              /\ parts[5] = as_str(kind)
              /\ \/ ~ParseI64(parts[1]).some
                 \/ ~ParseI64(parts[CASE kind = "Node" -> 2 [] kind = "Way" -> 3
                                      [] kind = "Relation" -> 4]).some

\* C22: a member cell whose id token or kind-selected foreign-key token is not an
\* integer makes fetch_all_relations_and_tags return an error, never the relation
\* without that member.
C22_MalformedCellFailsFetch ==
    (\E cell \in FetchedMemberCells : MalformedMemberCell(cell))
    => results["fetch_relations"] # "Ok"

\* the child tables of a parent table with the column that holds the parent's id
ChildrenOf(t) ==
    CASE t = "node" -> {<<"node_tags", "node_id">>}
      [] t = "way" -> {<<"way_nodes", "way_id">>, <<"way_tags", "way_id">>}
      [] t = "relation" -> {<<"member", "relation_id">>, <<"relation_tags", "relation_id">>}

Childless(t) ==
    { i \in 1..Len(store[t]) :
        \A c \in ChildrenOf(t) :
            \A n \in 1..Len(store[c[1]]) : store[c[1]][n][c[2]] # store[t][i].id }

NoChildren(call, e) ==
    /\ e.tags = <<>>
    /\ call = "fetch_ways" => e.node_refs = <<>>
    /\ call = "fetch_relations" => e.members = <<>>

EmptyAggregateRow == [id |-> 1, version |-> Integer(1), tags |-> Some(<<>>)]

\* C23: an aggregate column that is NULL or the empty string decodes to an empty
\* child collection and the fetch succeeds: a parent without child rows is
\* returned with empty tags, node_refs and members, neither dropped nor an error.
C23_EmptyAggregateDecodesEmpty ==
    /\ \A call \in FetchCalls :
          LET t == FetchTable(call)
              es == fetched[FetchField(call)]
          IN  /\ \A order \in AggOrders :
                    Unconvertible(t) = {} => FetchedRows(call, order).some
              /\ results[call] = "Ok" =>
                    \A i \in Childless(t) :
                        /\ i <= Len(es)
                        /\ es[i].id = store[t][i].id
                        /\ NoChildren(call, es[i])
    /\ NodeFromRow(EmptyAggregateRow) = Some(Node(1, 1, <<>>))
    /\ RelationFromRow([EmptyAggregateRow EXCEPT !.tags = None]
                         @@ [members |-> Some(<<>>)])
         = Some([id |-> 1, version |-> 1, members |-> <<>>, tags |-> <<>>])
    /\ RelationFromRow(EmptyAggregateRow @@ [members |-> None])
         = Some([id |-> 1, version |-> 1, members |-> <<>>, tags |-> <<>>])
    /\ WayFromRow(EmptyAggregateRow @@ [node_refs |-> Some(<<>>)])
         = Some(Way(1, 1, <<>>, <<>>))

\* a relation without member and tag rows was fetched next to one that has both
C23_Witness ==
    /\ results["fetch_relations"] = "Ok"
    /\ Childless("relation") # {}
    /\ \E i \in 1..Len(store.relation) : i \notin Childless("relation")
    /\ \A i \in Childless("relation") :
          fetched.relations[i].members = <<>> /\ fetched.relations[i].tags = <<>>

Has(s, c) == \E i \in 1..Len(s) : s[i] = c

\* the tag rows of a parent that come back as cells of their own
PlainTagRows(t, id) ==
    LET c == CHOOSE c \in ChildrenOf(t) : c[1] \notin {"way_nodes", "member"}
        rows == store[c[1]]
    IN  { [key |-> rows[n].key, value |-> rows[n].value] :
            n \in { n \in 1..Len(rows) :
                      /\ rows[n][c[2]] = id
                      /\ ~Has(rows[n].key, ":")
                      /\ ~Has(rows[n].key, ",") /\ ~Has(rows[n].value, ",")
                      /\ t = "node" => rows[n].key # <<>> /\ rows[n].value # <<>> } }

PlainMemberRows(id) ==
    { store.member[n] :
        n \in { n \in 1..Len(store.member) :
                  /\ store.member[n].relation_id = id
                  /\ ~Has(store.member[n].role, ",") } }

SelectedRef(row) ==
    CASE row.member_type = as_str("Node") -> row.node_id.v
      [] row.member_type = as_str("Way") -> row.way_id.v
      [] row.member_type = as_str("Relation") -> row.relation_ref_id.v

\* C24: the inner split is bounded. A tag cell decodes to key = the text before
\* its first ':' and value = all the rest; a member cell decodes to six fields at
\* fixed positions with role = all the rest after the fifth ':'. A ':' inside a
\* tag value or a role stays in the decoded value or role and shifts no field.
C24_BoundedInnerSplit ==
    \A call \in FetchCalls :
        results[call] = "Ok" =>
          LET t == FetchTable(call)
              es == fetched[FetchField(call)]
          IN  \A i \in 1..Len(store[t]) :
                /\ \A tag \in PlainTagRows(t, store[t][i].id) :
                      \E n \in 1..Len(es[i].tags) : es[i].tags[n] = tag
                /\ call = "fetch_relations" =>
                      \A row \in PlainMemberRows(store[t][i].id) :
                          \E n \in 1..Len(es[i].members) :
                              es[i].members[n] =
                                [id |-> row.id, ref_id |-> SelectedRef(row),
                                 maps_type |-> MapsTypeFromStr(row.member_type).v,
                                 role |-> row.role]

\* a tag value and a role that hold ':' were fetched
C24_Witness ==
    /\ results["fetch_relations"] = "Ok"
    /\ \E i \in 1..Len(fetched.relations) :
          /\ \E n \in 1..Len(fetched.relations[i].tags) :
                Has(fetched.relations[i].tags[n].value, ":")
          /\ \E n \in 1..Len(fetched.relations[i].members) :
                Has(fetched.relations[i].members[n].role, ":")

----------------------------------------------------------------------------
(* Attribute order. *)

Envelope(es) == <<Ev("Start", "osm", <<>>)>> \o Concat(es) \o <<Ev("End", "osm", <<>>)>>

\* the attribute lists a reader must treat like attrs: every order of its
\* attributes, with and without an attribute no reader names before or behind
AttrVariants(attrs) ==
    LET n == Len(attrs)
        perms == { f \in [1..n -> 1..n] : \A a, b \in 1..n : f[a] = f[b] => a = b }
        extra == <<Attr("visible", <<"t", "r", "u", "e">>)>>
    IN  UNION { LET v == [i \in 1..n |-> attrs[f[i]]]
                IN  {v, extra \o v, v \o extra} : f \in perms }

SameDecoding(e, attrs) ==
    CASE e.name = "node" ->
           EntityAttrs(attrs, 1, {"lat", "lon"}, Some(Node(0, 0, <<>>)))
           = EntityAttrs(e.attrs, 1, {"lat", "lon"}, Some(Node(0, 0, <<>>)))
      [] e.name = "way" ->
           EntityAttrs(attrs, 1, {}, Some(Way(0, 0, <<>>, <<>>)))
           = EntityAttrs(e.attrs, 1, {}, Some(Way(0, 0, <<>>, <<>>)))
      [] e.name = "relation" ->
           EntityAttrs(attrs, 1, {}, Some(Relation(0, 0, <<>>, <<>>)))
           = EntityAttrs(e.attrs, 1, {}, Some(Relation(0, 0, <<>>, <<>>)))
      [] e.name = "tag" ->
           TagAttrs(attrs, 1, Tag(<<>>, <<>>)) = TagAttrs(e.attrs, 1, Tag(<<>>, <<>>))
      [] e.name = "nd" ->
           NdAttrs(attrs, 1, Some(-1)) = NdAttrs(e.attrs, 1, Some(-1))
      [] e.name = "member" ->
           LET new == Some([ref_id |-> 0, maps_type |-> "Other", role |-> <<>>])
           IN  MemberAttrs(attrs, 1, new) = MemberAttrs(e.attrs, 1, new)
      [] OTHER -> TRUE

Parsed(call) ==
    CASE call = "read_nodes" -> nodes
      [] call = "read_ways" -> ways
      [] call = "read_relations" -> relations

\* C25: the parse result does not depend on the order of the attributes of an
\* element and ignores attributes no reader names: an element and the same
\* element with reordered attributes and an extra attribute give equal records
\* (Member ids included), and every attribute loop returns the same value for
\* every order of an element's attributes, with or without an extra attribute.
C25_AttributeOrderIrrelevant ==
    /\ \A es \in TwinElements :
          doc = Envelope(<<es, ReorderedElement(es)>>) =>
            \A call \in {"read_nodes", "read_ways", "read_relations"} :
                results[call] = "Ok" =>
                  \/ Parsed(call) = <<>>
                  \/ Len(Parsed(call)) = 2 /\ Parsed(call)[1] = Parsed(call)[2]
    /\ (stage \in {"read_nodes", "read_ways", "read_relations"} /\ pos <= Len(doc)) =>
          \A attrs \in AttrVariants(doc[pos].attrs) : SameDecoding(doc[pos], attrs)

\* a relation and its reordered twin were read into equal records with members
C25_Witness ==
    /\ \E es \in TwinElements : doc = Envelope(<<es, ReorderedElement(es)>>)
    /\ results["read_relations"] = "Ok"
    /\ Len(relations) = 2
    /\ relations[1] = relations[2]
    /\ Len(relations[2].members) = 2
    /\ Len(relations[2].tags) = 1

----------------------------------------------------------------------------
(* Flattening and re-chunking of child rows. *)

\* the child rows of a whole input collection, parents in input order and the
\* children of a parent in their stored order
Flattened(t) ==
    CASE t = "node_tags" -> NodeTagRows(nodes)
      [] t = "way_nodes" -> extract_way_node_refs(ways)
      [] t = "way_tags" -> WayTagRows(ways)
      [] t = "member" -> MemberRows(relations)
      [] t = "relation_tags" -> RelationTagRows(relations)

\* the rows of the statements a call issued for a table, in issue order
IssuedRows(call, t) ==
    LET IsOf(entry) == entry.call = call /\ entry.table = t
        entries == SelectSeq(log, IsOf)
    IN  Concat([i \in 1..Len(entries) |-> entries[i].rows])

ChildTablesOf(call) ==
    CASE call = "insert_nodes" -> {"node_tags"}
      [] call = "insert_ways" -> {"way_nodes", "way_tags"}
      [] call = "insert_relations" -> {"member", "relation_tags"}

\* C26: flattening and re-chunking loses and duplicates nothing. After a
\* successful load call the rows of all its statements for one child table, in
\* issue order, are the flattening of all parents' children, wherever the
\* parent-chunk and child-chunk boundaries fall.
C26_ChildRowsBoundOnce ==
    \A call \in LoadCalls :
        results[call] = "Ok" =>
          \A t \in ChildTablesOf(call) : IssuedRows(call, t) = Flattened(t)

\* a load call returned Ok after it cut the children of its first parent chunk
\* into a full and a shorter statement and went on to a second parent chunk
C26_Witness ==
    \E call \in LoadCalls :
        /\ results[call] = "Ok"
        /\ \A t \in ChildTablesOf(call) :
              \E a, b, c \in 1..Len(log) :
                  /\ log[a].call = call /\ log[b].call = call /\ log[c].call = call
                  /\ log[a].table = t /\ log[b].table = t /\ log[c].table = t
                  /\ log[a].pchunk = 1 /\ log[a].cchunk = 1
                  /\ log[b].pchunk = 1 /\ log[b].cchunk = 2
                  /\ Len(log[b].rows) < Len(log[a].rows)
                  /\ log[c].pchunk = 2

----------------------------------------------------------------------------
(* One entity for a parent row. *)

\* C27: a fetch call returns exactly one entity for every row of its parent
\* table: as many entities as rows, no parent twice because of the joins with
\* its child aggregates, parents without child rows included.
C27_OneEntityPerParentRow ==
    \A call \in FetchCalls :
        results[call] = "Ok" =>
          LET t == FetchTable(call)
              es == fetched[FetchField(call)]
          IN  /\ Len(es) = Len(store[t])
              /\ \A i \in 1..Len(es) : es[i].id = store[t][i].id

\* a node with two tag rows and a node with none were fetched as two nodes
C27_Witness ==
    /\ results["fetch_nodes"] = "Ok"
    /\ Len(store.node) = 2
    /\ Len(store.node_tags) = 2
    /\ Childless("node") = {2}
    /\ Len(fetched.nodes) = 2
    /\ Len(fetched.nodes[1].tags) = 2

----------------------------------------------------------------------------
(* The order of the stages of a run. *)

ReadCalls == {"read_nodes", "read_ways", "read_relations"}

AllRead == \A c \in ReadCalls : results[c] = "Ok"

FetchIssued == \E c \in FetchCalls : results[c] # "none"

HasId(t, id) == \E i \in 1..Len(store[t]) : store[t][i].id = id

AllStored(t, es) == \A i \in 1..Len(es) : HasId(t, es[i].id)

InsertedInto(t) ==
    \E i \in 1..Len(log) : log[i].table = t /\ log[i].ok /\ log[i].rows # <<>>

\* no statement before the three readers returned Ok; the load calls in the
\* order nodes, ways, relations; nothing after a load call that failed
LoadOrdering ==
    /\ log # <<>> => AllRead
    /\ \A a, b \in 1..Len(log) : a < b => CallRank(log[a].call) <= CallRank(log[b].call)
    /\ \A c \in LoadCalls :
          results[c] = "Err" =>
            /\ ~FetchIssued
            /\ \A d \in LoadCalls : CallRank(d) > CallRank(c) => results[d] = "none"
            /\ \A i \in 1..Len(log) : CallRank(log[i].call) <= CallRank(c)
    /\ \A c, d \in LoadCalls :
          (CallRank(c) < CallRank(d) /\ \E i \in 1..Len(log) : log[i].call = d)
          => results[c] = "Ok"

\* the parents a child row may point to are stored when the row is inserted
ParentsStoredFirst ==
    /\ InsertedInto("way_nodes") => AllStored("node", nodes)
    /\ InsertedInto("member") =>
          /\ AllStored("node", nodes)
          /\ AllStored("way", ways)
          /\ AllStored("relation", relations)

\* C28 as stated: no insert statement before the three readers returned Ok, the
\* load calls in the order nodes, ways, relations, nothing after a failed load
\* call, the referenced parents stored before a way_nodes or member row, and no
\* fetch query unless all three load calls returned Ok.
C28_FetchOnlyAfterLoads ==
    /\ LoadOrdering
    /\ ParentsStoredFirst
    /\ FetchIssued => AllLoaded

\* C28, amended: as above, but a fetch query is issued after all three load
\* calls returned Ok or, when no file was selected, without any read or load
\* call having run.
C28_StageOrdering ==
    /\ LoadOrdering
    /\ ParentsStoredFirst
    /\ FetchIssued =>
          \/ AllLoaded /\ AllRead
          \/ log = <<>> /\ \A c \in ReadCalls \cup LoadCalls : results[c] = "none"

\* a member row was inserted after nodes, ways and relations were parsed and
\* stored, and the fetch calls have started
C28_Witness ==
    /\ InsertedInto("member")
    /\ InsertedInto("way_nodes")
    /\ nodes # <<>> /\ ways # <<>> /\ relations # <<>>
    /\ AllLoaded
    /\ results["fetch_nodes"] = "Ok"

----------------------------------------------------------------------------
(* Rows that are in the store before a load call. *)

\* C29: a load call never changes or deletes a row that is in the store: every
\* step leaves each stored row at its place with the same column values, and adds
\* no row under the primary key of a stored row, so an input row with the key of
\* a stored row and other field values is ignored.
C29_ExistingRowsKept ==
    [][\A t \in Tables :
          /\ Len(store[t]) <= Len(store'[t])
          /\ \A i \in 1..Len(store[t]) :
                /\ store'[t][i] = store[t][i]
                /\ \A n \in (Len(store[t]) + 1)..Len(store'[t]) :
                      PrimaryKey(t, store'[t][n]) # PrimaryKey(t, store[t][i])]_vars

\* the rows a statement bound under the key of a stored row with other values
Ignored(t) ==
    { <<i, n, m>> \in (1..Len(log)) \X (1..2) \X (1..Len(store[t])) :
        /\ log[i].table = t /\ log[i].ok
        /\ n <= Len(log[i].rows)
        /\ PrimaryKey(t, log[i].rows[n]) = PrimaryKey(t, store[t][m])
        /\ log[i].rows[n] # store[t][m] }

\* an entity, a tag and a member were bound under the key of a stored row with
\* other values, and all three load calls returned Ok
C29_Witness ==
    /\ AllLoaded
    /\ \A t \in {"node", "node_tags", "way", "way_tags", "relation", "member",
                  "relation_tags"} : Ignored(t) # {}

----------------------------------------------------------------------------
(* Database::query_nodes. *)

MatchesFilter(n) == n.version >= odbc.min_version

\* C30: query_nodes returns every node that matches the version filter exactly
\* once, with all of its tags, however the ordered rows fall into fetch batches.
C30_EachNodeOnceWithAllTags ==
    odbc.result = "Ok" => odbc.nodes = SelectSeq(odbc.table, MatchesFilter)

====
